---- MODULE Spec2Model ----
(***************************************************************************)
(* Verification model of horizon-call-extractor:                           *)
(*   - parser_horizon.parse_calls (identifier-merge pre-pass, main scan    *)
(*     loop, topic lookahead, overview block, flush/dedup, final sort),    *)
(*   - parser_edf.parse_edf (record creation),                             *)
(*   - lambda_function date filters (_parse_date, _parse_filter_range,     *)
(*     _matches_prefix, _date_filter_match).                               *)
(*                                                                         *)
(* Text is modelled at token level.  A line is a sequence of tokens        *)
(* [c, v, g]: c is the lexical class, v an integer payload, and g says     *)
(* that no whitespace separates the token from the one before it (this     *)
(* only arises when the pre-pass concatenates two lines).  Each regular    *)
(* expression of the source is a predicate over such token sequences.      *)
(***************************************************************************)
EXTENDS Integers, Sequences, FiniteSets, TLC

\* Optional values: Python None is the empty tuple, a present value a 1-tuple.
None == <<>>
Some(v) == <<v>>

Min2(a, b) == IF a <= b THEN a ELSE b

(***************************************************************************)
(* Tokens                                                                  *)
(***************************************************************************)
Tok(c, v) == [c |-> c, v |-> v, g |-> FALSE]
GTok(c, v) == [c |-> c, v |-> v, g |-> TRUE]

\* ACTION_TYPES (parser_horizon.py:5-17); the model's inputs use the first three.
ACTION_TYPES == {"RIA", "IA", "CSA", "PCP", "PPI", "COFUND", "ERC", "MSCA",
                 "EIC-PATHFINDER", "EIC-TRANSITION", "EIC-ACCELERATOR"}
ActName(v) == CASE v = 1 -> "RIA" [] v = 2 -> "IA" [] v = 3 -> "CSA" [] OTHER -> "XX"

\* Topic ids of the inputs.  Topic k stands for an identifier
\* HORIZON-<prog>-<yyyy>-<nn>-<SEG>-<nn> (two trailing segments, as in every
\* example of the source); topic k belongs to call TopicCall(k).
\* Topic 1 is HORIZON-CL3-2026-01-BM-01, topic 2 is
\* HORIZON-CL3-2026-02-DRS-01-two-stage.
TopicCall(k) == k
TwoStageTopic(k) == k = 2

\* Lexical classes and the character classes of their first and last character.
\*   topic    a complete topic identifier                 (v = topic index)
\*   callid   a bare call identifier HORIZON-X-yyyy-nn    (v = call index)
\*   colon    ":" written directly after an identifier
\*   word     a lower-case prose word                     (v = word id)
\*   act      an action-type token                        (v = action index)
\*   num      a decimal number with 1-3 decimals          (v = thousandths)
\*   int      an integer without decimals                 (v = value)
\*   around   "Around"        to      "to"
\*   page     "<<<PAGE n>>>"                              (v = n)
\*   callpfx  "Call - "       paren   "(... stage ...)"   (v = 1 single, 2 two-stage)
\*   opening  "Opening:"      deadline "Deadline(s):"
\*   hdr      a section heading with its colon, such as "Scope:"
\*   noise    a running header/footer such as "Part 3 - Page 12 of 40"
\*   dots     a dot leader with page number " ..... n"    (v = n)
StartsWordChar(c) == c \notin {"colon", "page", "paren", "dots"}
EndsWordChar(c) == c \notin {"colon", "page", "paren", "opening", "deadline", "hdr"}
\* upper-case letters or digits only up to the next non-word character
IsUpperRun(c) == c \in {"act", "topic", "callid"}
IsDigits(c) == c \in {"int", "num"}
NumLike(t) == t.c \in {"int", "num"}
\* value in thousandths
NumVal(t) == IF t.c = "int" THEN t.v * 1000 ELSE t.v
IntPart(t) == IF t.c = "int" THEN t.v ELSE t.v \div 1000

\* A regex word boundary \b stands before token p.
BoundaryBefore(ln, p) ==
  \/ p = 1
  \/ ~ln[p].g
  \/ ~EndsWordChar(ln[p - 1].c)
  \/ ~StartsWordChar(ln[p].c)

\* a + b without a separating blank (the pre-pass's _norm(a + b)).
Glue(a, b) ==
  IF b = <<>> THEN a
  ELSE IF a = <<>> THEN b
  ELSE a \o <<[b[1] EXCEPT !.g = TRUE]>> \o Tail(b)

(***************************************************************************)
(* Identifier regexes                                                      *)
(***************************************************************************)
\* A topic id as the regex returns it: base topic k, possibly cut to its
\* first trailing segment (cut), or extended by characters the concatenation
\* glued to it (sfx: class and payload of the absorbed token).
TopicId(k, cut, sfx) == [k |-> k, cut |-> cut, sfx |-> sfx]
PlainId(k) == TopicId(k, FALSE, None)

\* RE_TOPIC_ID.search(ln).group(0) for the topic token at position p.
\* The last segment -[A-Z0-9]+ is greedy and the id must end at a \b:
\*   glued upper-case/digit text is absorbed into the last segment,
\*   glued text that continues with lower-case letters makes the regex
\*   backtrack and give up the last segment;
\*   any word character glued to a final "-two-stage" makes the regex give
\*   up that optional suffix.
TopicIdAt(ln, p) ==
  IF p = Len(ln) \/ ~ln[p + 1].g \/ ~StartsWordChar(ln[p + 1].c)
  THEN PlainId(ln[p].v)
  ELSE LET n == ln[p + 1] IN
       IF TwoStageTopic(ln[p].v) THEN TopicId(ln[p].v, TRUE, None)
       ELSE IF IsUpperRun(n.c) THEN TopicId(ln[p].v, FALSE, Some([c |-> n.c, v |-> n.v]))
       ELSE IF IsDigits(n.c) THEN TopicId(ln[p].v, FALSE, Some([c |-> "int", v |-> IntPart(n)]))
       ELSE TopicId(ln[p].v, TRUE, None)

TopicPositions(ln) ==
  {p \in 1..Len(ln) : ln[p].c = "topic" /\ BoundaryBefore(ln, p)}
\* bool(RE_TOPIC_ID.search(ln))
HasTopicId(ln) == TopicPositions(ln) # {}
FirstPos(S) == CHOOSE p \in S : \A q \in S : p <= q
\* RE_TOPIC_ID.search(ln).group(0)
TopicIdOf(ln) == TopicIdAt(ln, FirstPos(TopicPositions(ln)))

\* RE_CALL_ID.search(ln): a bare call id ending at a \b, or the call prefix
\* of a topic id.
CallPositions(ln) ==
  {p \in 1..Len(ln) :
     /\ BoundaryBefore(ln, p)
     /\ \/ ln[p].c = "topic"
        \/ /\ ln[p].c = "callid"
           /\ (p = Len(ln) \/ ~ln[p + 1].g \/ ~StartsWordChar(ln[p + 1].c))}
HasCallId(ln) == CallPositions(ln) # {}
CallIdOf(ln) ==
  LET p == FirstPos(CallPositions(ln))
  IN IF ln[p].c = "topic" THEN TopicCall(ln[p].v) ELSE ln[p].v

\* "HORIZON-" in ln
HasHorizon(ln) == \E p \in 1..Len(ln) : ln[p].c \in {"topic", "callid"}

(***************************************************************************)
(* _merge_split_identifier_lines                                           *)
(***************************************************************************)
\* _try_join(a, b): the first candidate that contains a topic id.
\* Candidates: a+b, a+" "+b, a.rstrip()+b.lstrip() (= a+b, the lines are
\* already normalised), then the same three with blanks around "-" removed
\* (the inputs hold no blank-separated "-" next to an identifier part, so
\* these add no match).
TryJoin(a, b) ==
  IF HasTopicId(Glue(a, b)) THEN Some(Glue(a, b))
  ELSE IF HasTopicId(a \o b) THEN Some(a \o b)
  ELSE None

RECURSIVE MergeFrom(_, _)
MergeFrom(ls, i) ==
  IF i > Len(ls) THEN <<>>
  ELSE IF HasHorizon(ls[i]) /\ i + 1 <= Len(ls) /\ TryJoin(ls[i], ls[i + 1]) # None
       THEN <<TryJoin(ls[i], ls[i + 1])[1]>> \o MergeFrom(ls, i + 2)
       ELSE <<ls[i]>> \o MergeFrom(ls, i + 1)

_merge_split_identifier_lines(ls) == MergeFrom(ls, 1)

(***************************************************************************)
(* Line predicates of the scanner                                          *)
(***************************************************************************)
\* RE_PAGE_MARKER.match(ln): the marker is the whole line.
IsPageMarker(ln) == Len(ln) = 1 /\ ln[1].c = "page"
\* ln.startswith("Call - ")
StartsCall(ln) == ln[1].c = "callpfx"
\* RE_OPENING.search(ln) / RE_DEADLINE.search(ln): the label anywhere in the
\* line (no \b in the regex), followed by at least one character.
LabelPositions(ln, lab) == {p \in 1..Len(ln) : ln[p].c = lab /\ p < Len(ln)}
HasLabel(ln, lab) == LabelPositions(ln, lab) # {}
\* _norm(m.group(1)): the rest of the line after the first label.
LabelText(ln, lab) ==
  LET p == FirstPos(LabelPositions(ln, lab))
      rest == SubSeq(ln, p + 1, Len(ln))
  IN <<[rest[1] EXCEPT !.g = FALSE]>> \o Tail(rest)
\* tokens = ln.split(); tokens and tokens[0] in ACTION_TYPES
FirstIsAction(ln) ==
  ln[1].c = "act" /\ ActName(ln[1].v) \in ACTION_TYPES /\ (Len(ln) = 1 \/ ~ln[2].g)
\* _is_title_noise_line (parse_calls): page marker, or running header/footer.
_is_title_noise_line(ln) ==
  IsPageMarker(ln) \/ \E p \in 1..Len(ln) : ln[p].c = "noise" /\ BoundaryBefore(ln, p)
\* _stop_title: RE_TITLE_SECTION_HEADER.match(ln)
_stop_title(ln) == ln[1].c = "hdr"
\* RE_SKIP_DESC.match(ln)
SkipDesc(ln) == ln[1].c = "hdr"
\* any(c.isalpha() for c in ln)
HasAlpha(ln) == \E p \in 1..Len(ln) : ln[p].c \notin {"int", "num", "colon", "dots"}

\* "new block" test shared by the lookahead loops:
\* ln.startswith("Call - ") or RE_TOPIC_ID.search(ln)
\*   or (RE_CALL_ID.search(ln) and not RE_TOPIC_ID.search(ln))
IsBlockStart(ln) == StartsCall(ln) \/ HasTopicId(ln) \/ HasCallId(ln)

(***************************************************************************)
(* _parse_overview_block                                                   *)
(***************************************************************************)
OverviewCap == 12
TitleLinesCap == 6
DescLinesCap == 3
ExtraLinesCap == 2

\* Numbers that \b(\d+(?:\.\d{1,3})?)\b finds inside a token (thousandths).
NumsIn(t) ==
  IF NumLike(t) THEN <<NumVal(t)>>
  ELSE IF t.c \in {"page", "dots"} THEN <<t.v * 1000>>
  ELSE <<>>
RECURSIVE AllNums(_)
AllNums(ts) == IF ts = <<>> THEN <<>> ELSE NumsIn(ts[1]) \o AllNums(Tail(ts))
\* (\d{1,3})\b read at the start of a token
HasIntHead3(t) == NumLike(t) /\ IntPart(t) < 1000
\* (?<!\.)\b(\d{1,3})\s*$ : the text ends with an integer of 1-3 digits
EndsWithInt3(ts) ==
  ts # <<>> /\ ts[Len(ts)].c \in {"int", "dots"} /\ ts[Len(ts)].v < 1000

NoOverview(start_i) ==
  [ok |-> FALSE, action_type |-> "", budget_eur_m |-> 0,
   budget_per_project_min_eur_m |-> 0, budget_per_project_max_eur_m |-> 0,
   projects |-> 0, i |-> start_i]
Overview(a, total, lo, hi, n, i) ==
  [ok |-> TRUE, action_type |-> a, budget_eur_m |-> total,
   budget_per_project_min_eur_m |-> lo, budget_per_project_max_eur_m |-> hi,
   projects |-> n, i |-> i]

\* positions of "X to Y N" in rest
RangePositions(rest) ==
  {p \in 1..(Len(rest) - 3) :
     /\ NumLike(rest[p]) /\ rest[p + 1].c = "to"
     /\ NumLike(rest[p + 2]) /\ HasIntHead3(rest[p + 3])}
\* positions of "Around <decimal>" in rest
AroundPositions(rest) ==
  {p \in 1..(Len(rest) - 1) : rest[p].c = "around" /\ NumLike(rest[p + 1])}
\* positions of "Around <1-3 digit integer>" in rest
AroundIntPositions(rest) ==
  {p \in 1..(Len(rest) - 1) : rest[p].c = "around" /\ HasIntHead3(rest[p + 1])}
\* the last number of fs that differs from total (None when there is none)
RECURSIVE LastDistinct(_, _)
LastDistinct(fs, total) ==
  IF fs = <<>> THEN None
  ELSE IF fs[Len(fs)] # total THEN Some(fs[Len(fs)])
  ELSE LastDistinct(SubSeq(fs, 1, Len(fs) - 1), total)

\* The digits after the point of a decimal as it is written (two of them, or
\* three when the thousandths digit is not 0), read as a number.
FractionDigits(t) == IF t.v % 10 = 0 THEN (t.v % 1000) \div 10 ELSE t.v % 1000
\* (\d{1,2})\b at the start of token p: one or two digits, then a boundary
FootnoteDigits(ts, p) ==
  /\ NumLike(ts[p])
  /\ IntPart(ts[p]) < 100
  /\ ts[p].c = "int" => (p = Len(ts) \/ ~ts[p + 1].g \/ ~StartsWordChar(ts[p + 1].c))
\* what is left of the token when these digits are removed: nothing of an
\* integer, ".dd" of a decimal, which reads as the number dd
WithoutDigits(t) ==
  IF t.c = "int" THEN <<>>
  ELSE <<[c |-> "num", v |-> FractionDigits(t) * 1000, g |-> TRUE]>>
\* one re.sub of lines 466-467: the digits that follow a token of class c
\* (directly for ")", after white space for EUR / million) are removed
RECURSIVE StripFrom(_, _, _, _)
StripFrom(ts, p, c, glued) ==
  IF p > Len(ts) THEN <<>>
  ELSE IF /\ p < Len(ts)
          /\ ts[p].c = c
          /\ c = "unit" => BoundaryBefore(ts, p)
          /\ ts[p + 1].g = glued
          /\ FootnoteDigits(ts, p + 1)
       THEN <<ts[p]>> \o WithoutDigits(ts[p + 1]) \o StripFrom(ts, p + 2, c, glued)
       ELSE <<ts[p]>> \o StripFrom(ts, p + 1, c, glued)
\* _clean_overview_joined(s) (lines 460-468); "unit" tokens are EUR / million
_clean_overview_joined(s) == StripFrom(StripFrom(s, 1, "paren", TRUE), 1, "unit", FALSE)

\* One pass of the loop body on the cleaned joined buffer; None means
\* "i += 1, go on".
OverviewOfBuffer(joined, next_i) ==
  IF ~(Len(joined) >= 2 /\ joined[1].c = "act" /\ ~joined[2].g) THEN None
  ELSE
    LET action == ActName(joined[1].v)
        rest == Tail(joined)
        nums == AllNums(rest)
    IN IF nums = <<>> THEN None
       ELSE
         LET total == nums[1] IN
         IF RangePositions(rest) # {}
         THEN LET p == FirstPos(RangePositions(rest))
              IN Some(Overview(action, total, NumVal(rest[p]), NumVal(rest[p + 2]),
                               IntPart(rest[p + 3]), next_i))
         ELSE IF AroundPositions(rest) # {}
         THEN LET p == FirstPos(AroundPositions(rest))
                  amount == NumVal(rest[p + 1])
              IN IF EndsWithInt3(rest)
                 THEN Some(Overview(action, total, amount, amount,
                                    rest[Len(rest)].v, next_i))
                 ELSE None
         ELSE IF AroundIntPositions(rest) # {}
         THEN LET p == FirstPos(AroundIntPositions(rest))
                  amt == LastDistinct(nums, total)
              IN IF amt # None
                 THEN Some(Overview(action, total, amt[1], amt[1],
                                    IntPart(rest[p + 1]), next_i))
                 ELSE None
         ELSE None

RECURSIVE OverviewLoop(_, _, _, _, _)
OverviewLoop(ls, start_i, i, n, buf) ==
  IF n = 0 \/ i > Len(ls) THEN NoOverview(start_i)
  ELSE IF IsBlockStart(ls[i]) THEN NoOverview(start_i)
  ELSE LET joined == buf \o ls[i]
           r == OverviewOfBuffer(_clean_overview_joined(joined), i + 1)
       IN IF r # None THEN r[1]
          ELSE OverviewLoop(ls, start_i, i + 1, n - 1, joined)

\* the same, with one more iteration of the loop
ParseOverviewLonger(ls, start_i) == OverviewLoop(ls, start_i, start_i, OverviewCap + 1, <<>>)
_parse_overview_block(ls, start_i) == OverviewLoop(ls, start_i, start_i, OverviewCap, <<>>)

(***************************************************************************)
(* Cluster line and derived fields                                         *)
(***************************************************************************)
\* _strip_dot_leader_page(s): (text without the dot leader, page or None).
\* RE_DOT_LEADER_PAGE is anchored at the end of the text.
HasDotLeader(ts) == ts # <<>> /\ ts[Len(ts)].c = "dots"
StripDots(ts) == IF HasDotLeader(ts) THEN SubSeq(ts, 1, Len(ts) - 1) ELSE ts
DotsPage(ts) == IF HasDotLeader(ts) THEN Some(ts[Len(ts)].v) ELSE None

ParenPositions(ts) == {p \in 1..Len(ts) : ts[p].c = "paren"}
\* _parse_cluster_line(ln) -> (cluster, stage, call_round, page)
_parse_cluster_line(ln) ==
  LET cleaned == StripDots(Tail(ln))
      hasParen == ParenPositions(cleaned) # {}
      pp == IF hasParen THEN FirstPos(ParenPositions(cleaned)) ELSE 0
      inside == IF hasParen THEN cleaned[pp].v ELSE 0
  IN [cluster |-> IF hasParen THEN SubSeq(cleaned, 1, pp - 1) ELSE cleaned,
      stage |-> IF inside = 1 THEN Some("single")
                ELSE IF inside = 2 THEN Some("two-stage") ELSE None,
      \* inside.split("-")[-1] when the parenthesis holds a "-":
      \* "(two-stage)" yields the round "stage"
      call_round |-> IF inside = 2 THEN Some("stage") ELSE None,
      page |-> DotsPage(Tail(ln))]

\* _derive_call_id_from_topic: every topic id starts with its call id and "-".
_derive_call_id_from_topic(tid) == Some(TopicCall(tid.k))

\* _derive_call_round(topic_id): "<yyyy>-<nn>" of the id, tagged by its call.
_derive_call_round(tid) == Some("of-call")

\* "two-stage" in topic_id.lower()
IdSaysTwoStage(tid) ==
  \/ TwoStageTopic(tid.k) /\ ~tid.cut
  \/ tid.sfx # None /\ tid.sfx[1].c = "topic" /\ TwoStageTopic(tid.sfx[1].v)

\* _derive_stage(topic_id, current_stage); topic_id is never empty here.
_derive_stage(tid, current) ==
  IF current # None THEN current
  ELSE IF IdSaysTwoStage(tid) THEN Some("two-stage")
  ELSE Some("single")

(***************************************************************************)
(* Topic lookahead (parse_calls, lines 892-1027)                           *)
(***************************************************************************)
\* positions of the first ":" of a line (split(":", 1))
ColonPositions(ts) ==
  {p \in 1..Len(ts) : ts[p].c \in {"colon", "opening", "deadline", "hdr"}}
\* pending_title_parts after the topic line: [after[1]] when the line has a ":"
InlineTitleParts(ln) ==
  LET cleaned == StripDots(ln) IN
  IF ColonPositions(cleaned) = {} THEN <<>>
  ELSE <<SubSeq(cleaned, FirstPos(ColonPositions(cleaned)) + 1, Len(cleaned))>>

\* first loop: up to TitleLinesCap title lines
RECURSIVE TitleLoop(_, _, _, _)
TitleLoop(ls, i, n, parts) ==
  IF i > Len(ls) \/ n >= TitleLinesCap THEN [i |-> i, parts |-> parts]
  ELSE IF _is_title_noise_line(ls[i]) THEN TitleLoop(ls, i + 1, n, parts)
  ELSE IF IsBlockStart(ls[i]) \/ FirstIsAction(ls[i]) \/ _stop_title(ls[i])
       THEN [i |-> i, parts |-> parts]
  ELSE TitleLoop(ls, i + 1, n + 1, Append(parts, ls[i]))

\* short description lines after the overview (collected, never used in the row)
RECURSIVE DescLoop(_, _, _)
DescLoop(ls, i, n) ==
  IF i > Len(ls) \/ n >= DescLinesCap THEN i
  ELSE IF StartsCall(ls[i]) \/ HasTopicId(ls[i]) \/ FirstIsAction(ls[i]) THEN i
  ELSE IF SkipDesc(ls[i]) THEN DescLoop(ls, i + 1, n)
  ELSE DescLoop(ls, i + 1, n + 1)

\* (.*)\b(\d{1,4}(?:\.\d{1,2})?)\s*$ : the line ends with a number
EndsWithNumber(ln) ==
  \/ ln[Len(ln)].c \in {"num", "callid"}
  \/ ln[Len(ln)].c \in {"int", "dots"} /\ ln[Len(ln)].v < 10000
\* group(1): for a decimal with three decimals the greedy (.*) keeps "<int>."
\* and the number is the decimals; for " ..... n" it keeps the dots, and for
\* a call identifier "HORIZON-X-yyyy-nn" it keeps "HORIZON-X-yyyy-".
LeftOfNumber(ln) ==
  LET t == ln[Len(ln)]
      before == SubSeq(ln, 1, Len(ln) - 1)
  IN IF t.c = "num" THEN Append(before, [c |-> "frag", v |-> IntPart(t), g |-> t.g])
     ELSE IF t.c = "dots" THEN Append(before, [c |-> "dotsonly", v |-> 0, g |-> t.g])
     ELSE IF t.c = "callid" THEN Append(before, [c |-> "callfrag", v |-> t.v, g |-> t.g])
     ELSE before

\* trailing title fragments: two more lines
RECURSIVE ExtraLoop(_, _, _, _)
ExtraLoop(ls, i, k, parts) ==
  IF k = 0 \/ i > Len(ls) THEN [i |-> i, parts |-> parts]
  ELSE IF StartsCall(ls[i]) \/ HasTopicId(ls[i]) THEN [i |-> i, parts |-> parts]
  ELSE IF _is_title_noise_line(ls[i]) THEN ExtraLoop(ls, i + 1, k - 1, parts)
  ELSE IF _stop_title(ls[i]) THEN [i |-> i, parts |-> parts]
  ELSE IF EndsWithNumber(ls[i])
       THEN LET left == LeftOfNumber(ls[i])
            IN IF left # <<>> /\ ~FirstIsAction(left)
               THEN ExtraLoop(ls, i + 1, k - 1, Append(parts, left))
               ELSE ExtraLoop(ls, i + 1, k - 1, parts)
  ELSE IF HasAlpha(ls[i]) THEN ExtraLoop(ls, i + 1, k - 1, Append(parts, ls[i]))
  ELSE ExtraLoop(ls, i + 1, k - 1, parts)

\* second loop: search for the overview block
RECURSIVE OverviewSearch(_, _, _)
OverviewSearch(ls, i, parts) ==
  IF i > Len(ls) THEN [i |-> i, parts |-> parts, ov |-> NoOverview(i)]
  ELSE IF IsBlockStart(ls[i]) THEN [i |-> i, parts |-> parts, ov |-> NoOverview(i)]
  ELSE IF _is_title_noise_line(ls[i]) THEN OverviewSearch(ls, i + 1, parts)
  ELSE IF _stop_title(ls[i]) THEN [i |-> i, parts |-> parts, ov |-> NoOverview(i)]
  ELSE IF FirstIsAction(ls[i]) /\ _parse_overview_block(ls, i).ok
       THEN LET ov == _parse_overview_block(ls, i)
                e == ExtraLoop(ls, DescLoop(ls, ov.i, 0), ExtraLinesCap, parts)
            IN [i |-> e.i, parts |-> e.parts, ov |-> ov]
  ELSE OverviewSearch(ls, i + 1, parts)

\* The whole lookahead after a topic line at index i: the index of the first
\* line left to the main loop, the title parts and the overview (if any).
TopicLookahead(ls, i) ==
  LET t == TitleLoop(ls, i + 1, 0, InlineTitleParts(ls[i]))
  IN OverviewSearch(ls, t.i, t.parts)

(***************************************************************************)
(* flush_topic: the row, its score, the per-id store                       *)
(***************************************************************************)
RECURSIVE Flatten(_)
\* _join_title_parts: the non-empty parts in order
Flatten(parts) == IF parts = <<>> THEN <<>> ELSE parts[1] \o Flatten(Tail(parts))

\* _trim_title_stop_phrases: cut at the first stop marker ("scope",
\* "expected outcome", "deadline(s)", ... : the heading and deadline tokens)
StopMarkerPositions(ts) == {p \in 1..Len(ts) : ts[p].c \in {"hdr", "deadline"}}
TrimStop(ts) ==
  IF StopMarkerPositions(ts) = {} THEN ts
  ELSE SubSeq(ts, 1, FirstPos(StopMarkerPositions(ts)) - 1)

\* a page that defaults to the first page of the document
FirstPageDefault(a, b, c, d) ==
  IF a # None THEN a ELSE IF b # None THEN b ELSE IF c # None THEN c
  ELSE IF d # None THEN d ELSE Some(1)
\* a or b or c or d on optional values (no page is 0 in the inputs)
FirstSome(a, b, c, d) ==
  IF a # None THEN a ELSE IF b # None THEN b ELSE IF c # None THEN c ELSE d

\* The row flush_topic builds (lines 769-826).  topic_title is the joined
\* title after dot-leader stripping and stop-phrase trimming; the glued-word
\* repairs of _normalize_title_text work inside words and are not modelled.
\* topic_description, trl and topic_body come from the detail blocks of the
\* raw text and are not part of this row model.
BuildRow(ctx, tid, parts, pending_page, ov) ==
  LET joined == Flatten(parts) IN
  [cluster |-> ctx.cluster,
   stage |-> _derive_stage(tid, ctx.stage),
   call_round |-> IF ctx.call_round # None THEN ctx.call_round
                  ELSE _derive_call_round(tid),
   page |-> FirstSome(ctx.page, pending_page, DotsPage(joined), ctx.cluster_page),
   call_id |-> IF ctx.call_id # None THEN ctx.call_id
               ELSE _derive_call_id_from_topic(tid),
   topic_id |-> tid,
   topic_title |-> TrimStop(StripDots(joined)),
   action_type |-> IF ov.ok THEN Some(ov.action_type) ELSE None,
   opening_date |-> ctx.opening,
   deadline_date |-> ctx.deadline,
   budget_eur_m |-> IF ov.ok THEN Some(ov.budget_eur_m) ELSE None,
   projects |-> IF ov.ok THEN Some(ov.projects) ELSE None,
   budget_per_project_min_eur_m |->
     IF ov.ok THEN Some(ov.budget_per_project_min_eur_m) ELSE None,
   budget_per_project_max_eur_m |->
     IF ov.ok THEN Some(ov.budget_per_project_max_eur_m) ELSE None]

\* r.get(k) not in (None, "", 0)
PopulatedStr(f) == f # None /\ f[1] # ""
PopulatedNum(f) == f # None /\ f[1] # 0
B2N(b) == IF b THEN 1 ELSE 0
\* score(r) (lines 735-746)
score(r) ==
  B2N(PopulatedStr(r.action_type)) + B2N(PopulatedNum(r.budget_eur_m))
  + B2N(PopulatedNum(r.projects)) + B2N(PopulatedNum(r.budget_per_project_min_eur_m))
  + B2N(PopulatedNum(r.budget_per_project_max_eur_m))

\* best_by_topic is kept as the list of its values in insertion order.
KeyPositions(best, tid) == {p \in 1..Len(best) : best[p].topic_id = tid}
\* Two stores that flush_topic does not implement: one that keeps every
\* occurrence, one that lets an occurrence of equal score replace the stored row.
PutAlways(best, row) == Append(best, row)
PutNotStrict(best, row) ==
  IF KeyPositions(best, row.topic_id) = {} THEN Append(best, row)
  ELSE LET p == FirstPos(KeyPositions(best, row.topic_id))
       IN IF score(row) >= score(best[p]) THEN [best EXCEPT ![p] = row] ELSE best
\* lines 828-830: prev = best_by_topic.get(id); store when prev is None or
\* score(row) > score(prev)
Put(best, row) ==
  IF KeyPositions(best, row.topic_id) = {} THEN Append(best, row)
  ELSE LET p == FirstPos(KeyPositions(best, row.topic_id))
       IN IF score(row) > score(best[p]) THEN [best EXCEPT ![p] = row] ELSE best

(***************************************************************************)
(* rows.sort(key=lambda r: (r.get("call_id") or "", r.get("topic_id") or ""))*)
(***************************************************************************)
RECURSIVE Digits(_)
Digits(n) == IF n < 10 THEN <<n>> ELSE Append(Digits(n \div 10), n % 10)
RECURSIVE LexLess(_, _)
LexLess(a, b) ==
  IF b = <<>> THEN FALSE
  ELSE IF a = <<>> THEN TRUE
  ELSE IF a[1] # b[1] THEN a[1] < b[1]
  ELSE LexLess(Tail(a), Tail(b))
\* The characters an id absorbed, as a comparable key: digits sort before
\* letters, then "CSA" < "HORIZON-..." < "IA" < "RIA"; absorbed identifiers
\* compare by call number and a call id is a prefix of its topic ids.
SfxKey(x) ==
  IF x.c = "int" THEN <<0>> \o Digits(x.v)
  ELSE IF x.c = "act" THEN <<(CASE x.v = 3 -> 1 [] x.v = 2 -> 3 [] OTHER -> 4)>>
  ELSE IF x.c = "callid" THEN <<2, x.v>>
  ELSE <<2, TopicCall(x.v), x.v>>
\* string order of two topic ids
IdLess(a, b) ==
  IF a.k # b.k THEN a.k < b.k
  ELSE IF a.cut # b.cut THEN a.cut
  ELSE IF a.sfx = b.sfx THEN FALSE
  ELSE IF a.sfx = None THEN TRUE
  ELSE IF b.sfx = None THEN FALSE
  ELSE LexLess(SfxKey(a.sfx[1]), SfxKey(b.sfx[1]))
CallKey(r) == IF r.call_id = None THEN 0 ELSE r.call_id[1]
RowLess(a, b) ==
  IF CallKey(a) # CallKey(b) THEN CallKey(a) < CallKey(b)
  ELSE IdLess(a.topic_id, b.topic_id)
RECURSIVE InsertSorted(_, _)
InsertSorted(sorted, r) ==
  IF sorted = <<>> THEN <<r>>
  ELSE IF RowLess(r, sorted[1]) THEN <<r>> \o sorted
  ELSE <<sorted[1]>> \o InsertSorted(Tail(sorted), r)
\* the values of the dict as they are, in insertion order
InsertionOrder(rs) == rs
RECURSIVE SortRows(_)
SortRows(rs) ==
  IF rs = <<>> THEN <<>>
  ELSE InsertSorted(SortRows(SubSeq(rs, 1, Len(rs) - 1)), rs[Len(rs)])

(***************************************************************************)
(* Input documents of the Horizon parser                                   *)
(***************************************************************************)
\* A document is the concatenation of up to MaxBlocks blocks; a block is one
\* line of the vocabulary, or a topic heading wrapped over two lines.
MaxBlocks == 3

L_T1 == <<Tok("topic", 1)>>
L_T1t == <<Tok("topic", 1), GTok("colon", 0), Tok("word", 1)>>
L_T2t == <<Tok("topic", 2), GTok("colon", 0), Tok("word", 2)>>
L_Text == <<Tok("word", 3)>>
\* "RIA 9.67 Around 4.835 2"
L_OvAround == <<Tok("act", 1), Tok("num", 9670), Tok("around", 0), Tok("num", 4835), Tok("int", 2)>>
\* "IA 0 10.00 to 9.00 2"
L_OvRange == <<Tok("act", 2), Tok("int", 0), Tok("num", 10000), Tok("to", 0), Tok("num", 9000), Tok("int", 2)>>
\* "<<<PAGE 3>>>"
L_Page == <<Tok("page", 3)>>
\* "Call - name (two-stage)"
L_Cluster == <<Tok("callpfx", 0), Tok("word", 4), Tok("paren", 2)>>
\* "HORIZON-CL3-2026-01"
L_CallId == <<Tok("callid", 1)>>
\* "Opening: 12 may" / "Deadline(s): 15 sep"
L_Opening == <<Tok("opening", 0), Tok("int", 12), Tok("word", 5)>>
L_Deadline == <<Tok("deadline", 0), Tok("int", 15), Tok("word", 6)>>
\* "Opening: 12 may HORIZON-CL3-2026-01-BM-01"
L_OpeningT == <<Tok("opening", 0), Tok("int", 12), Tok("word", 5), Tok("topic", 1)>>

LineVocabulary ==
  {L_T1, L_T1t, L_T2t, L_Text, L_OvAround, L_OvRange, L_Page,
   L_Cluster, L_CallId, L_Opening, L_Deadline, L_OpeningT}

\* "CSA 3.00 Around 1.50 2"
L_OvCsa == <<Tok("act", 3), Tok("num", 3000), Tok("around", 0), Tok("num", 1500), Tok("int", 2)>>

\* a heading wrapped over two lines, and two complete entries (wrapped
\* heading and overview line) of topic 1
WrappedHeading == <<L_T1t, L_Text>>
EntryRia == <<L_T1t, L_Text, L_OvAround>>
EntryCsa == <<L_T1t, L_Text, L_OvCsa>>
Blocks == {<<l>> : l \in LineVocabulary} \cup {WrappedHeading, EntryRia, EntryCsa}

RECURSIVE Concat(_)
Concat(bs) == IF bs = <<>> THEN <<>> ELSE bs[1] \o Concat(Tail(bs))

SeqsUpTo(S, n) == UNION {[1..m -> S] : m \in 0..n}
Documents == {Concat(bs) : bs \in SeqsUpTo(Blocks, MaxBlocks)}

(***************************************************************************)
(* parser_edf: lines, records and the per-line rules of parse_edf          *)
(***************************************************************************)
\* An EDF line is modelled by what the regular expressions and substring
\* tests of parse_edf read from it:
\*   kind    "toc_start"    contains "Table of contents"
\*           "toc_end"      "1. Content of the document"
\*           "call"         RE_CALL_LINE matches        (v = call index)
\*           "topic_line"   RE_TOPIC_LINE matches       (v = topic index)
\*           "topic_only"   RE_TOPIC_ONLY matches       (v = topic index)
\*           "type"         "Type of action: <T>"       (v = text id of T)
\*           "topic_budget" "Indicative budget for this topic: EUR <v>"
\*           "call_budget"  "Indicative budget for the call: EUR <v>"
\*           "both_budgets" "Indicative budget for the call: EUR <v>, of
\*                          which EUR ... for this topic"
\*           "funding"      funding wording and a percentage  (v = the number)
\*           "funding_words" funding wording, no percentage   (v = text id)
\*           "percent"      a percentage, no funding wording  (v = the number)
\*           "heading"      a line with Objectives, General objective,
\*                          Specific objective or Scope and types of
\*                          activities                  (v = text id)
\*           "text"         any other prose             (v = text id)
\*   sec     the leading section number (0 when absent)
\*   title   text id of the inline title (0 when absent)
\*   nwords  len(ln.split())
\* EDF topic 1 is EDF-2026-RA-SENS-01, topic 2 is EDF-2026-DA-LS-02; call 1
\* is EDF-2026-RA, call 2 is EDF-2026-DA, call 3 is EDF-2026-LS.
ELine(kind, v, sec, title, nwords) ==
  [kind |-> kind, v |-> v, sec |-> sec, title |-> title, nwords |-> nwords]

\* the third hyphen segment of a call id
ECallSegment(c) == CASE c = 1 -> "RA" [] c = 2 -> "DA" [] c = 3 -> "LS" [] OTHER -> "XX"
CALL_FAMILY_LABELS == {"RA", "DA", "CSA"}
\* _call_family_topic(tid): RE_CALL finds the call prefix of a topic id
ETopicCall(t) == t
_call_family_topic(t) == Some(ETopicCall(t))

_extract_call_family(call) ==
  IF call = None THEN None
  ELSE IF ECallSegment(call[1]) \in CALL_FAMILY_LABELS
       THEN Some(ECallSegment(call[1])) ELSE None

\* euros to whole millions, the rest dropped
WholeMillions(eur) == (eur \div 1000000) * 100
\* _to_millions: euros to millions rounded to 2 decimals, kept in hundredths
_to_millions(eur) == (eur + 5000) \div 10000

\* _extract_topic_budget_eur_m (lines 138-141): "indicative budget" and "for
\* this topic" are in the line; the amount is the first one after EUR
_extract_topic_budget_eur_m(ln) ==
  IF ln.kind \in {"topic_budget", "both_budgets"} THEN Some(_to_millions(ln.v)) ELSE None
\* _extract_call_budget_eur_m (lines 144-147): "indicative budget for the
\* call" is in the line
_extract_call_budget_eur_m(ln) ==
  IF ln.kind \in {"call_budget", "both_budgets"} THEN Some(_to_millions(ln.v)) ELSE None
\* any percentage of a line is taken, funding wording or not
AnyPercentage(ln) == IF ln.kind \in {"funding", "percent"} THEN Some(ln.v) ELSE None
\* _extract_funding_percentage (lines 150-177): funding wording, then a
\* percentage
_extract_funding_percentage(ln) ==
  IF ln.kind \notin {"funding", "funding_words"} THEN None
  ELSE IF ln.kind = "funding" THEN Some(ln.v)
  ELSE None

\* Texts are [k, v]: k names where the text came from, v its id; the empty
\* string is NoText.
NoText == [k |-> "", v |-> 0]
InlineTitle(ln) == IF ln.title = 0 THEN NoText ELSE [k |-> "inline", v |-> ln.title]
LineText(ln) == [k |-> ln.kind, v |-> ln.v]

\* RE_CALL.search(ln): the line holds an EDF call prefix
HasEdfCall(ln) == ln.kind \in {"call", "topic_line", "topic_only"}
\* _is_bad_title on a whole line: BAD_TITLE_HINTS
IsBadTitleLine(ln) == ln.kind \in {"toc_start", "toc_end"}
_looks_like_title_fragment(ln) ==
  /\ ln.nwords >= 2
  /\ ln.kind \notin {"type", "topic_budget", "call_budget", "both_budgets"}
  /\ ~HasEdfCall(ln)

\* lines 206-207: if current: current["_in_desc"] = False
LeaveDesc(recs, cur) == IF cur = 0 THEN recs ELSE [recs EXCEPT ![cur].in_desc = FALSE]

\* the CALL record of lines 257-276
CallRecord(ln) ==
  [record_level |-> "CALL", call_id |-> Some(ln.v), topic_id |-> None,
   topic_title |-> NoText,
   title |-> IF ln.title = 0 THEN [k |-> "call_id", v |-> ln.v] ELSE InlineTitle(ln),
   section_no |-> ln.sec, type_of_action |-> 0,
   indicative_budget_eur_m |-> None, call_indicative_budget_eur_m |-> None,
   call_family |-> _extract_call_family(Some(ln.v)),
   funding_percentage |-> None,
   topic_description_verbatim |-> <<>>, in_desc |-> FALSE,
   awaiting_title |-> FALSE]

\* the TOPIC record ensure_current builds (lines 208-233)
TopicRecord(cur_call, ln, awaiting) ==
  LET call == IF cur_call # None THEN cur_call ELSE _call_family_topic(ln.v)
  IN [record_level |-> "TOPIC", call_id |-> call, topic_id |-> Some(ln.v),
      topic_title |-> InlineTitle(ln),
      title |-> IF ln.title = 0 THEN [k |-> "topic_id", v |-> ln.v] ELSE InlineTitle(ln),
      section_no |-> ln.sec, type_of_action |-> 0,
      indicative_budget_eur_m |-> None, call_indicative_budget_eur_m |-> None,
      call_family |-> _extract_call_family(call),
      funding_percentage |-> None,
      topic_description_verbatim |-> <<>>, in_desc |-> FALSE,
      awaiting_title |-> awaiting \/ ln.title = 0]

\* lines 345-353: the line holds one of the description headings
start_desc(ln) == ln.kind = "heading"

\* lines 300-381 applied to the current topic record: title continuation,
\* type of action, the two budgets, funding percentage, the verbatim
\* description (lines 343-361: the description is kept as the sequence of
\* its lines) and the title fallback.  (Number of actions, STEP and dates are
\* not part of this record model.)
ApplyFieldLine(rec, ln) ==
  LET r1 == IF rec.awaiting_title /\ _looks_like_title_fragment(ln) /\ ~IsBadTitleLine(ln)
            THEN [rec EXCEPT !.topic_title = LineText(ln), !.awaiting_title = FALSE]
            ELSE rec
      r2 == IF ln.kind = "type" THEN [r1 EXCEPT !.type_of_action = ln.v] ELSE r1
      r3 == IF _extract_call_budget_eur_m(ln) # None
            THEN [r2 EXCEPT !.call_indicative_budget_eur_m = _extract_call_budget_eur_m(ln)]
            ELSE r2
      r3t == IF _extract_topic_budget_eur_m(ln) # None
             THEN [r3 EXCEPT !.indicative_budget_eur_m = _extract_topic_budget_eur_m(ln)]
             ELSE r3
      r4 == IF _extract_funding_percentage(ln) # None /\ r3t.funding_percentage = None
            THEN [r3t EXCEPT !.funding_percentage = _extract_funding_percentage(ln)]
            ELSE r3t
      r5 == IF start_desc(ln) THEN [r4 EXCEPT !.in_desc = TRUE] ELSE r4
      r6 == IF r5.in_desc
            THEN [r5 EXCEPT !.topic_description_verbatim = Append(@, ln)]
            ELSE r5
  IN IF r6.awaiting_title /\ r6.topic_title = NoText /\ ln.nwords > 3
        /\ ~HasEdfCall(ln) /\ ~IsBadTitleLine(ln)
     THEN [r6 EXCEPT !.topic_title = LineText(ln), !.awaiting_title = FALSE]
     ELSE r6

\* the hyphen segments of an identifier after the third: a call id has three
\* segments, topic 1 is EDF-2026-RA-SENS-01 and topic 2 is EDF-2026-DA-LS-02
ECallTail(c) == <<>>
ETopicTail(t) == IF t = 2 THEN <<"LS", "02">> ELSE <<"SENS", "01">>
\* _has_large_scale_token on the segments after the third
_has_large_scale_token(tail) == \E p \in 1..Len(tail) : tail[p] = "LS"
\* re.search(r"\blarge[-\s]?scale\b") on a text: the title "Large scale" and
\* the line "Large-scale demonstrator project" hold the phrase
LargeScaleTitles == {6}
LargeScaleTexts == {8}
MentionsLargeScale(t) ==
  \/ t.k = "inline" /\ t.v \in LargeScaleTitles
  \/ t.k = "text" /\ t.v \in LargeScaleTexts
\* _is_large_scale(call_id, topic_id, title, desc)
_is_large_scale(call_id, topic_id, title, desc) ==
  \/ topic_id # None /\ _has_large_scale_token(ETopicTail(topic_id[1]))
  \/ call_id # None /\ _has_large_scale_token(ECallTail(call_id[1]))
  \/ MentionsLargeScale(title)
  \/ \E p \in 1..Len(desc) : MentionsLargeScale(LineText(desc[p]))

\* the post-pass of lines 383-392 on one record; the private keys are popped
PostPass(t) ==
  [record_level |-> t.record_level, call_id |-> t.call_id, topic_id |-> t.topic_id,
   topic_title |-> t.topic_title, title |-> t.title, section_no |-> t.section_no,
   type_of_action |-> t.type_of_action,
   indicative_budget_eur_m |-> t.indicative_budget_eur_m,
   call_indicative_budget_eur_m |-> t.call_indicative_budget_eur_m,
   funding_percentage |-> t.funding_percentage,
   topic_description_verbatim |-> t.topic_description_verbatim,
   is_large_scale |-> _is_large_scale(t.call_id, t.topic_id, t.title,
                                      t.topic_description_verbatim),
   call_family |-> IF t.call_family # None THEN t.call_family
                   ELSE IF _extract_call_family(t.call_id) # None
                     THEN _extract_call_family(t.call_id)
                   ELSE IF t.topic_id = None THEN None
                   ELSE _extract_call_family(_call_family_topic(t.topic_id[1]))]

\* Input documents of the EDF parser: up to MaxEdfLines lines.
MaxEdfLines == 3
\* "Table of contents" / "1. Content of the document"
E_TocStart == ELine("toc_start", 0, 0, 0, 3)
E_TocEnd == ELine("toc_end", 0, 0, 0, 5)
\* "2 Call EDF-2026-RA: Research actions"
E_Call == ELine("call", 1, 2, 1, 5)
\* "2.1 EDF-2026-RA-SENS-01: Sensors title"
E_Topic1 == ELine("topic_line", 1, 21, 2, 4)
\* "2.1 EDF-2026-RA-SENS-01"
E_Topic1Only == ELine("topic_only", 1, 21, 0, 2)
\* "EDF-2026-DA-LS-02: Large platform"
E_Topic2 == ELine("topic_line", 2, 0, 3, 3)
\* "Type of action: Research actions"
E_Type == ELine("type", 4, 0, 0, 5)
\* "Indicative budget for this topic: EUR 25 000 000"
E_TopicBudget == ELine("topic_budget", 25000000, 0, 0, 10)
\* "Indicative budget for the call: EUR 90 000 000"
E_CallBudget == ELine("call_budget", 90000000, 0, 0, 10)
\* "Improved sensors"
E_Text == ELine("text", 5, 0, 0, 2)
\* "3 Call EDF-2026-LS: Large scale"
E_CallLs == ELine("call", 3, 3, 6, 5)
\* "Indicative budget for this topic: EUR 1 234 567"
E_TopicBudgetOdd == ELine("topic_budget", 1234567, 0, 0, 9)
\* "Indicative budget for the call: EUR 90 000 000, of which EUR 25 000 000 for this topic"
E_BothBudgets == ELine("both_budgets", 90000000, 0, 0, 18)
\* "The funding rate is up to 80 %"
E_Funding == ELine("funding", 80, 0, 0, 8)
\* "The funding rate is set later"
E_FundingWords == ELine("funding_words", 7, 0, 0, 6)
\* "At least 30% of the budget"
E_Percent == ELine("percent", 30, 0, 0, 6)

EdfVocabulary ==
  {E_TocStart, E_TocEnd, E_Call, E_Topic1, E_Topic1Only, E_Topic2, E_Type,
   E_TopicBudget, E_CallBudget, E_Text, E_CallLs, E_TopicBudgetOdd,
   E_BothBudgets, E_Funding, E_FundingWords, E_Percent}
\* up to MaxEdfLines lines, or a Call header and MaxEdfLines lines after it
EdfDocuments ==
  SeqsUpTo(EdfVocabulary, MaxEdfLines)
  \cup {<<c>> \o d : c \in {E_Call, E_CallLs}, d \in [1..MaxEdfLines -> EdfVocabulary]}

\* Documents about descriptions and the large-scale flag: up to
\* MaxEdfTextLines lines.
MaxEdfTextLines == 3
\* "Objectives"
E_Objectives == ELine("heading", 9, 0, 0, 1)
\* "Large-scale demonstrator project"
E_LargeText == ELine("text", 8, 0, 0, 3)
EdfTextVocabulary ==
  {E_TocStart, E_TocEnd, E_Call, E_CallLs, E_Topic1, E_Topic1Only, E_Topic2,
   E_Objectives, E_Text, E_LargeText}
EdfTextDocuments == SeqsUpTo(EdfTextVocabulary, MaxEdfTextLines)

(***************************************************************************)
(* lambda_function: date parsing and the date filter                       *)
(***************************************************************************)
\* A string is a sequence of one-character strings; Python None is None and
\* a present string s is Some(s).
OrEmpty(o) == IF o = None THEN <<>> ELSE o[1]

DigitChars == {"0", "1", "2", "3", "4", "5", "6", "7", "8", "9"}
LetterChars ==
  {"a", "b", "c", "d", "e", "f", "g", "h", "i", "j", "k", "l", "m", "n", "o",
   "p", "q", "r", "s", "t", "u", "v", "w", "x", "y", "z",
   "A", "B", "C", "D", "E", "F", "G", "H", "I", "J", "K", "L", "M", "N", "O",
   "P", "Q", "R", "S", "T", "U", "V", "W", "X", "Y", "Z"}
DigitVal(c) ==
  CASE c = "0" -> 0 [] c = "1" -> 1 [] c = "2" -> 2 [] c = "3" -> 3 [] c = "4" -> 4
    [] c = "5" -> 5 [] c = "6" -> 6 [] c = "7" -> 7 [] c = "8" -> 8 [] c = "9" -> 9
DigitChar(n) ==
  CASE n = 0 -> "0" [] n = 1 -> "1" [] n = 2 -> "2" [] n = 3 -> "3" [] n = 4 -> "4"
    [] n = 5 -> "5" [] n = 6 -> "6" [] n = 7 -> "7" [] n = 8 -> "8" [] n = 9 -> "9"

RECURSIVE ToInt(_)
\* int(group) on a run of digits
ToInt(s) == IF s = <<>> THEN 0 ELSE ToInt(SubSeq(s, 1, Len(s) - 1)) * 10 + DigitVal(s[Len(s)])
AllDigits(s, a, b) == b <= Len(s) /\ \A k \in a..b : s[k] \in DigitChars

RECURSIVE LStrip(_)
LStrip(s) == IF s # <<>> /\ s[1] = " " THEN LStrip(Tail(s)) ELSE s
RECURSIVE RStripChars(_, _)
\* s.rstrip(chars)
RStripChars(s, cs) ==
  IF s # <<>> /\ s[Len(s)] \in cs THEN RStripChars(SubSeq(s, 1, Len(s) - 1), cs) ELSE s
\* s.strip()
Strip(s) == RStripChars(LStrip(s), {" "})

\* a character left as it is (no case folding)
SameChar(c) == c
\* c.lower()
LowerChar(c) ==
  CASE c = "A" -> "a"
  [] c = "B" -> "b"
  [] c = "C" -> "c"
  [] c = "D" -> "d"
  [] c = "E" -> "e"
  [] c = "F" -> "f"
  [] c = "G" -> "g"
  [] c = "H" -> "h"
  [] c = "I" -> "i"
  [] c = "J" -> "j"
  [] c = "K" -> "k"
  [] c = "L" -> "l"
  [] c = "M" -> "m"
  [] c = "N" -> "n"
  [] c = "O" -> "o"
  [] c = "P" -> "p"
  [] c = "Q" -> "q"
  [] c = "R" -> "r"
  [] c = "S" -> "s"
  [] c = "T" -> "t"
  [] c = "U" -> "u"
  [] c = "V" -> "v"
  [] c = "W" -> "w"
  [] c = "X" -> "x"
  [] c = "Y" -> "y"
  [] c = "Z" -> "z"
  [] OTHER -> c
Lower(s) == [k \in 1..Len(s) |-> LowerChar(s[k])]
\* a.startswith(b)
StartsWith(a, b) == Len(b) <= Len(a) /\ SubSeq(a, 1, Len(b)) = b

\* _matches_prefix(value, prefix) (lines 84-90)
_matches_prefix(value, prefix) ==
  LET pref == Strip(OrEmpty(prefix))
  IN IF pref = <<>> THEN TRUE
     ELSE IF value = None THEN FALSE
     ELSE StartsWith(Lower(Strip(value[1])), Lower(pref))

\* Dates are [y, m, d].  isleap and the month lengths of calendar.monthrange
\* and of the date constructor:
\* (the Julian rule, which calendar.isleap does not use)
LeapEveryFourth(y) == y % 4 = 0
isleap(y) == y % 4 = 0 /\ (y % 100 # 0 \/ y % 400 = 0)
DaysInMonth(y, m) ==
  IF m \in {1, 3, 5, 7, 8, 10, 12} THEN 31
  ELSE IF m \in {4, 6, 9, 11} THEN 30
  ELSE IF isleap(y) THEN 29 ELSE 28
\* date(y, mo, d): ValueError (here None) outside year 1..9999, month 1..12
\* or the month's days
MakeDate(y, mo, d) ==
  IF y \in 1..9999 /\ mo \in 1..12 /\ d >= 1 /\ d <= DaysInMonth(y, mo)
  THEN Some([y |-> y, m |-> mo, d |-> d]) ELSE None
\* date(y, mo, calendar.monthrange(y, mo)[1]): monthrange raises for a month
\* outside 1..12
EndOfMonth(y, mo) ==
  IF mo \in 1..12 THEN MakeDate(y, mo, DaysInMonth(y, mo)) ELSE None

\* a >= b, and the a > b of line 287, on dates
DateGE(a, b) ==
  \/ a.y > b.y
  \/ a.y = b.y /\ a.m > b.m
  \/ a.y = b.y /\ a.m = b.m /\ a.d >= b.d
DateGT(a, b) ==
  \/ a.y > b.y
  \/ a.y = b.y /\ a.m > b.m
  \/ a.y = b.y /\ a.m = b.m /\ a.d > b.d

\* ^(\d{4})-(\d{2})-(\d{2})$    ^(\d{4})-(\d{2})$    ^(\d{4})$
IsFullShape(t) ==
  Len(t) = 10 /\ AllDigits(t, 1, 4) /\ t[5] = "-" /\ AllDigits(t, 6, 7)
  /\ t[8] = "-" /\ AllDigits(t, 9, 10)
IsMonthShape(t) == Len(t) = 7 /\ AllDigits(t, 1, 4) /\ t[5] = "-" /\ AllDigits(t, 6, 7)
IsYearShape(t) == Len(t) = 4 /\ AllDigits(t, 1, 4)
\* ^(\d{4})-Q([1-4])$ with re.IGNORECASE
IsQuarterShape(t) ==
  Len(t) = 7 /\ AllDigits(t, 1, 4) /\ t[5] = "-" /\ LowerChar(t[6]) = "q"
  /\ t[7] \in {"1", "2", "3", "4"}

\* the end of the longest run of characters of cs that starts at p (p - 1 when
\* the run is empty)
RECURSIVE RunEnd(_, _, _)
RunEnd(t, p, cs) == IF p <= Len(t) /\ t[p] \in cs THEN RunEnd(t, p + 1, cs) ELSE p - 1

months(w) ==
  IF w \in {<<"j", "a", "n">>, <<"j", "a", "n", "u", "a", "r", "y">>, <<"g", "e", "n">>, <<"g", "e", "n", "n", "a", "i", "o">>} THEN 1 ELSE
  IF w \in {<<"f", "e", "b">>, <<"f", "e", "b", "r", "u", "a", "r", "y">>, <<"f", "e", "b", "b", "r", "a", "i", "o">>} THEN 2 ELSE
  IF w \in {<<"m", "a", "r">>, <<"m", "a", "r", "c", "h">>, <<"m", "a", "r", "z", "o">>} THEN 3 ELSE
  IF w \in {<<"a", "p", "r">>, <<"a", "p", "r", "i", "l">>, <<"a", "p", "r", "i", "l", "e">>} THEN 4 ELSE
  IF w \in {<<"m", "a", "y">>, <<"m", "a", "g", "g", "i", "o">>} THEN 5 ELSE
  IF w \in {<<"j", "u", "n">>, <<"j", "u", "n", "e">>, <<"g", "i", "u", "g", "n", "o">>} THEN 6 ELSE
  IF w \in {<<"j", "u", "l">>, <<"j", "u", "l", "y">>, <<"l", "u", "g", "l", "i", "o">>} THEN 7 ELSE
  IF w \in {<<"a", "u", "g">>, <<"a", "u", "g", "u", "s", "t">>, <<"a", "g", "o", "s", "t", "o">>} THEN 8 ELSE
  IF w \in {<<"s", "e", "p">>, <<"s", "e", "p", "t">>, <<"s", "e", "p", "t", "e", "m", "b", "e", "r">>, <<"s", "e", "t", "t", "e", "m", "b", "r", "e">>} THEN 9 ELSE
  IF w \in {<<"o", "c", "t">>, <<"o", "c", "t", "o", "b", "e", "r">>, <<"o", "t", "t", "o", "b", "r", "e">>} THEN 10 ELSE
  IF w \in {<<"n", "o", "v">>, <<"n", "o", "v", "e", "m", "b", "e", "r">>, <<"n", "o", "v", "e", "m", "b", "r", "e">>} THEN 11 ELSE
  IF w \in {<<"d", "e", "c">>, <<"d", "e", "c", "e", "m", "b", "e", "r">>, <<"d", "i", "c", "e", "m", "b", "r", "e">>} THEN 12 ELSE
  0

\* ^(\d{1,2})\s+([A-Za-z]{3,})\.?,?\s+(\d{4})$ : the positions of its groups,
\* or ok = FALSE
DayNameMatch(t) ==
  LET d2 == Min2(RunEnd(t, 1, DigitChars), 2)
      s1 == RunEnd(t, d2 + 1, {" "})
      w2 == RunEnd(t, s1 + 1, LetterChars)
      p1 == IF w2 + 1 <= Len(t) /\ t[w2 + 1] = "." THEN w2 + 1 ELSE w2
      p2 == IF p1 + 1 <= Len(t) /\ t[p1 + 1] = "," THEN p1 + 1 ELSE p1
      s2 == RunEnd(t, p2 + 1, {" "})
  IN [ok |-> /\ d2 >= 1 /\ s1 > d2 /\ w2 >= s1 + 3 /\ s2 > p2
             /\ Len(t) = s2 + 4 /\ AllDigits(t, s2 + 1, s2 + 4),
      day |-> SubSeq(t, 1, d2), mon |-> SubSeq(t, s1 + 1, w2),
      year |-> SubSeq(t, s2 + 1, Len(t))]

\* ^(\d{1,2})[./](\d{1,2})[./](\d{4})$
DaySlashMatch(t) ==
  LET d2 == Min2(RunEnd(t, 1, DigitChars), 2)
      m2 == Min2(RunEnd(t, d2 + 2, DigitChars), d2 + 3)
  IN [ok |-> /\ d2 >= 1 /\ d2 + 1 <= Len(t) /\ t[d2 + 1] \in {".", "/"}
             /\ m2 >= d2 + 2 /\ m2 + 1 <= Len(t) /\ t[m2 + 1] \in {".", "/"}
             /\ Len(t) = m2 + 5 /\ AllDigits(t, m2 + 2, m2 + 5),
      day |-> SubSeq(t, 1, d2), mon |-> SubSeq(t, d2 + 2, m2),
      year |-> SubSeq(t, m2 + 2, Len(t))]

\* _parse_date(s) (lines 133-217)
_parse_date(s) ==
  LET txt == RStripChars(Strip(OrEmpty(s)), {".", ",", ";"})
      dn == DayNameMatch(txt)
      ds == DaySlashMatch(txt)
  IN IF Strip(OrEmpty(s)) = <<>> THEN None
     ELSE IF IsFullShape(txt)
       THEN MakeDate(ToInt(SubSeq(txt, 1, 4)), ToInt(SubSeq(txt, 6, 7)), ToInt(SubSeq(txt, 9, 10)))
     ELSE IF IsMonthShape(txt)
       THEN EndOfMonth(ToInt(SubSeq(txt, 1, 4)), ToInt(SubSeq(txt, 6, 7)))
     ELSE IF IsYearShape(txt) THEN MakeDate(ToInt(txt), 12, 31)
     ELSE IF dn.ok /\ months(Lower(dn.mon)) # 0
       THEN MakeDate(ToInt(dn.year), months(Lower(dn.mon)), ToInt(dn.day))
     ELSE IF ds.ok THEN MakeDate(ToInt(ds.year), ToInt(ds.mon), ToInt(ds.day))
     ELSE None

\* the tuple (None, end)
Range(end) == IF end = None THEN None ELSE Some([start |-> None, end |-> end[1]])

\* _parse_filter_range(filter_value) (lines 220-269)
_parse_filter_range(filter_value) ==
  LET txt == Strip(OrEmpty(filter_value))
  IN IF txt = <<>> THEN None
     ELSE IF IsYearShape(txt) THEN Range(MakeDate(ToInt(txt), 12, 31))
     ELSE IF IsQuarterShape(txt)
       THEN Range(EndOfMonth(ToInt(SubSeq(txt, 1, 4)), DigitVal(txt[7]) * 3))
     ELSE IF IsMonthShape(txt)
       THEN Range(EndOfMonth(ToInt(SubSeq(txt, 1, 4)), ToInt(SubSeq(txt, 6, 7))))
     ELSE IF IsFullShape(txt)
       THEN Range(MakeDate(ToInt(SubSeq(txt, 1, 4)), ToInt(SubSeq(txt, 6, 7)), ToInt(SubSeq(txt, 9, 10))))
     ELSE None

\* _date_filter_match(value, filter_value) (lines 272-289)
_date_filter_match(value, filter_value) ==
  LET rng == _parse_filter_range(filter_value)
      row_date == _parse_date(value)
  IN IF rng = None THEN _matches_prefix(value, filter_value)
     ELSE IF row_date = None THEN FALSE
     ELSE IF DateGT(row_date[1], rng[1].end) THEN FALSE
     ELSE TRUE

\* Inputs of the date filter.  Filters and ISO values are written out from
\* their numbers, so that parsing them is a round trip.
Pad2(n) == <<DigitChar(n \div 10), DigitChar(n % 10)>>
Pad4(n) == Pad2(n \div 100) \o Pad2(n % 100)
YearStr(y) == Pad4(y)
QuarterStr(y, q) == Pad4(y) \o <<"-", "Q", DigitChar(q)>>
MonthStr(y, m) == Pad4(y) \o <<"-">> \o Pad2(m)
DayStr(y, m, d) == Pad4(y) \o <<"-">> \o Pad2(m) \o <<"-">> \o Pad2(d)

FilterYears == {0, 1900, 2000, 2024, 2026}
FilterQuarters == 1..4
FilterMonths == {0, 2, 3, 12, 13}
FilterDays == {0, 28, 29, 31}
ValueYears == {2024, 2026}
ValueMonths == {2, 3, 5, 12}
ValueDays == {1, 15, 29, 31}

\* ' 2024-02 ' | '2024-q1' | '2024-Q5' | '2024-1' | '20' | 'tbd' | ' TBD' | 'x' | '2026-02-15.'
OtherFilters ==
  {<<" ", "2", "0", "2", "4", "-", "0", "2", " ">>,
   <<"2", "0", "2", "4", "-", "q", "1">>,
   <<"2", "0", "2", "4", "-", "Q", "5">>,
   <<"2", "0", "2", "4", "-", "1">>,
   <<"2", "0">>,
   <<"t", "b", "d">>,
   <<" ", "T", "B", "D">>,
   <<"x">>,
   <<"2", "0", "2", "6", "-", "0", "2", "-", "1", "5", ".">>}
\* ' 2024-02-29. ' | '2024-02' | '2026' | '29 Feb 2024' | '31 marzo 2026' | '15 Sept. 2026' | '1 Foo 2026' | '29/02/2024'
\* '31.12.2026' | '30/02/2026' | 'tbd' | ' TBD 2026' | 'Tbd' | '2026-13-01' | '2024-02-29 .'
OtherValues ==
  {<<" ", "2", "0", "2", "4", "-", "0", "2", "-", "2", "9", ".", " ">>,
   <<"2", "0", "2", "4", "-", "0", "2">>,
   <<"2", "0", "2", "6">>,
   <<"2", "9", " ", "F", "e", "b", " ", "2", "0", "2", "4">>,
   <<"3", "1", " ", "m", "a", "r", "z", "o", " ", "2", "0", "2", "6">>,
   <<"1", "5", " ", "S", "e", "p", "t", ".", " ", "2", "0", "2", "6">>,
   <<"1", " ", "F", "o", "o", " ", "2", "0", "2", "6">>,
   <<"2", "9", "/", "0", "2", "/", "2", "0", "2", "4">>,
   <<"3", "1", ".", "1", "2", ".", "2", "0", "2", "6">>,
   <<"3", "0", "/", "0", "2", "/", "2", "0", "2", "6">>,
   <<"t", "b", "d">>,
   <<" ", "T", "B", "D", " ", "2", "0", "2", "6">>,
   <<"T", "b", "d">>,
   <<"2", "0", "2", "6", "-", "1", "3", "-", "0", "1">>,
   <<"2", "0", "2", "4", "-", "0", "2", "-", "2", "9", " ", ".">>}

FilterStrings ==
  {YearStr(y) : y \in FilterYears}
  \cup {QuarterStr(y, q) : y \in FilterYears, q \in FilterQuarters}
  \cup {MonthStr(y, m) : y \in FilterYears, m \in FilterMonths}
  \cup {DayStr(y, m, d) : y \in FilterYears, m \in FilterMonths, d \in FilterDays}
  \cup OtherFilters \cup {<<>>}
ValueStrings ==
  {DayStr(y, m, d) : y \in ValueYears, m \in ValueMonths, d \in ValueDays}
  \cup OtherValues \cup {<<>>}
\* filter values and row values, None included
FilterInputs == {None} \cup {Some(f) : f \in FilterStrings}
ValueInputs == {None} \cup {Some(v) : v \in ValueStrings}

(***************************************************************************)
(* filter_rows (lambda_function.py)                                        *)
(***************************************************************************)
\* a character left as it is (no upper-casing)
KeepChar(c) == c
\* c.upper()
UpperChar(c) ==
  CASE c = "a" -> "A" [] c = "b" -> "B" [] c = "c" -> "C" [] c = "d" -> "D"
    [] c = "e" -> "E" [] c = "f" -> "F" [] c = "g" -> "G" [] c = "h" -> "H"
    [] c = "i" -> "I" [] c = "j" -> "J" [] c = "k" -> "K" [] c = "l" -> "L"
    [] c = "m" -> "M" [] c = "n" -> "N" [] c = "o" -> "O" [] c = "p" -> "P"
    [] c = "q" -> "Q" [] c = "r" -> "R" [] c = "s" -> "S" [] c = "t" -> "T"
    [] c = "u" -> "U" [] c = "v" -> "V" [] c = "w" -> "W" [] c = "x" -> "X"
    [] c = "y" -> "Y" [] c = "z" -> "Z"
    [] OTHER -> c
Upper(s) == [k \in 1..Len(s) |-> UpperChar(s[k])]

\* the least element of a non-empty set of numbers
MinOf(S) == CHOOSE x \in S : \A y \in S : x <= y
\* every row has a budget of zero
NoBudget(row) == Some(0)
\* _compute_budget_per_project_m(row) (lines 69-81): the least of the numeric
\* per-project budget fields, None when there is none
_compute_budget_per_project_m(row) ==
  LET vals == {f[1] : f \in {g \in {row.budget_per_project_min_eur_m,
                                      row.budget_per_project_max_eur_m,
                                      row.budget_per_project_m} : g # None}}
  IN IF vals # {} THEN Some(MinOf(vals)) ELSE None

\* an allow-list taken as it is, blank entries included
AllowedAsGiven(action_types) ==
  IF action_types = None \/ action_types[1] = <<>> THEN None
  ELSE Some({action_types[1][k] : k \in 1..Len(action_types[1])})
\* the local allowed (lines 299-303): the upper-cased non-blank entries, None
\* when the list is absent, empty or has only blank entries
AllowedOf(action_types) ==
  IF action_types = None \/ action_types[1] = <<>> THEN None
  ELSE LET allowed == {Upper(action_types[1][k]) :
                         k \in {j \in 1..Len(action_types[1]) :
                                  Strip(action_types[1][j]) # <<>>}}
       IN IF allowed = {} THEN None ELSE Some(allowed)

\* lines 306-310: the row is not skipped for its action type
TypeOk(r, allowed) ==
  IF allowed = None THEN TRUE ELSE Upper(OrEmpty(r.action_type)) \in allowed[1]
\* lines 312-319: the row is not skipped for its budget
BudgetOk(r, min_budget_m) ==
  IF min_budget_m = None THEN TRUE
  ELSE LET direct == r.budget_per_project_min_eur_m
           budget_val == IF direct # None THEN direct
                         ELSE _compute_budget_per_project_m(r)
           b == IF budget_val = None THEN 0 ELSE budget_val[1]
       IN ~(b < min_budget_m[1])
\* lines 321-325: the row is not skipped for its dates
DatesOk(r, opening_filter, deadline_filter) ==
  /\ _date_filter_match(r.opening_date, opening_filter)
  /\ _date_filter_match(r.deadline_date, deadline_filter)

\* Inputs of filter_rows.  Action types are strings of characters; budgets are
\* whole millions.
MaxRows == 3
S_RIA == <<"R", "I", "A">>
S_ria == <<"r", "i", "a">>
S_Csa == <<"C", "s", "a">>
S_CSA == <<"C", "S", "A">>
S_IA == <<"I", "A">>
S_blank == <<" ">>
FRow(tid, at, bmin, bmax, bpp, od, dd) ==
  [topic_id |-> tid, action_type |-> at,
   budget_per_project_min_eur_m |-> bmin, budget_per_project_max_eur_m |-> bmax,
   budget_per_project_m |-> bpp, opening_date |-> od, deadline_date |-> dd]
FilterRowVocabulary ==
  {FRow(1, Some(S_RIA), Some(5), Some(5), None,
        Some(DayStr(2026, 2, 15)), Some(DayStr(2026, 5, 15))),
   FRow(2, Some(S_Csa), None, Some(3), None, None, None),
   FRow(3, None, None, None, None,
        Some(DayStr(2024, 2, 29)), Some(<<"t", "b", "d">>)),
   FRow(4, Some(S_CSA), Some(10), Some(9), None,
        Some(DayStr(2026, 12, 31)), Some(DayStr(2026, 5, 31))),
   FRow(5, Some(S_IA), None, Some(8), Some(6),
        Some(DayStr(2026, 2, 15)), Some(DayStr(2026, 12, 1)))}
FilterRowLists == SeqsUpTo(FilterRowVocabulary, MaxRows)
\* None | [] | [' '] | ['ria'] | [' ', 'CSA'] | ['RIA', 'Ia']
ActionTypeLists ==
  {None, Some(<<>>), Some(<<S_blank>>), Some(<<S_ria>>),
   Some(<<S_blank, S_CSA>>), Some(<<S_RIA, <<"I", "a">>>>)}
MinBudgets == {None, Some(0), Some(5), Some(6)}
\* '' | '2026'
OpeningFilters == {Some(<<>>), Some(YearStr(2026))}
\* '' | '2026-05'
DeadlineFilters == {Some(<<>>), Some(MonthStr(2026, 5))}

(***************************************************************************)
(* _process_pdf_key (lambda_function.py): the steps between parse_calls    *)
(* and write_xlsx                                                          *)
(***************************************************************************)
OPENAI_MAX_TOPICS == 25
DescLongEnough == 80
\* line 1793: no summarization below this remaining time (milliseconds)
LowTimeMs == 8000
\* lines 1768-1771 for one row
DeriveBudget(r) ==
  LET derived_budget == _compute_budget_per_project_m(r)
  IN [r EXCEPT !.budget_per_project_min_eur_m = derived_budget,
               !.budget_per_project_m = derived_budget]
\* lines 1797-1803: the row has a body and its description is shorter than 80
NeedsSummary(r) ==
  /\ Strip(OrEmpty(r.topic_body)) # <<>>
  /\ Len(Strip(OrEmpty(r.topic_description))) < DescLongEnough
\* lines 1790-1795: context.get_remaining_time_in_millis() was read as ms
\* (None: there is no context, or it reports no time)
LowTime(ms) == ms # None /\ ms[1] < LowTimeMs
\* desc_cache[clean_body] = summary
CachePut(cache, body, summary) ==
  [b \in DOMAIN cache \cup {body} |-> IF b = body THEN summary ELSE cache[b]]
\* lines 1817-1824 for one row
NormaliseRow(r) ==
  LET d == IF r.topic_description = None
           THEN [r EXCEPT !.topic_description = Some(<<>>)] ELSE r
  IN IF d.budget_per_project_min_eur_m = None THEN DeriveBudget(d) ELSE d
\* lines 1827-1828 for one row: r.pop("topic_body", None)
PopBody(r) == [k \in DOMAIN r \ {"topic_body"} |-> r[k]]

\* Inputs of _process_pdf_key: the rows parse_calls returned.  A parsed row has
\* no key budget_per_project_m; row.get reads it as None.
MaxPostRows == 2
PRow(tid, at, bmin, bmax, desc, body) ==
  [topic_id |-> tid, action_type |-> at,
   budget_per_project_min_eur_m |-> bmin, budget_per_project_max_eur_m |-> bmax,
   budget_per_project_m |-> None, opening_date |-> None, deadline_date |-> None,
   topic_description |-> desc, topic_body |-> body]
\* 'Scope: Short text.'
ShortDescription ==
  <<"S", "c", "o", "p", "e", ":", " ", "S", "h", "o", "r", "t", " ", "t", "e",
    "x", "t", ".">>
LongDescription == [k \in 1..DescLongEnough |-> "x"]
TopicBody == <<"S", "c", "o", "p", "e", ":", " ", "b", "o", "d", "y">>
OtherBody == <<"S", "c", "o", "p", "e", ":", " ", "o", "t", "h", "e", "r">>
\* what the summarizer returns when it answers
Summary == <<"s", "u", "m", "m", "a", "r", "y">>
PostRowVocabulary ==
  {PRow(1, Some(S_RIA), Some(5), Some(5), Some(ShortDescription), Some(TopicBody)),
   PRow(2, Some(S_CSA), Some(10), Some(9), None, Some(TopicBody)),
   PRow(3, None, None, None, Some(LongDescription), Some(TopicBody)),
   PRow(4, Some(S_IA), Some(6), Some(8), None, None),
   PRow(5, Some(S_RIA), Some(7), Some(7), None, Some(OtherBody))}
\* parse_calls returns one row per topic id
PostRowLists ==
  {rs \in SeqsUpTo(PostRowVocabulary, MaxPostRows) :
     \A a, b \in 1..Len(rs) : a # b => rs[a].topic_id # rs[b].topic_id}
\* what get_remaining_time_in_millis() can report; the time left only shrinks
RemainingTimes == {12000, 7999}
Clocks == {None} \cup {Some(t) : t \in RemainingTimes}
LaterClocks(c) ==
  IF c = None THEN {None} ELSE {Some(t) : t \in {u \in RemainingTimes : u <= c[1]}}

(***************************************************************************)
(* Several invocations of a parser                                         *)
(***************************************************************************)
\* Inputs: the text parsed twice, and the texts of the other invocation.
MaxRuns == 3
MaxAgainBlocks == 1
MaxAgainLines == 2
AgainCallTexts == {Concat(bs) : bs \in SeqsUpTo(Blocks, MaxAgainBlocks)}
OtherCallTexts == {<<L_CallId, L_Opening>>, <<L_Cluster, L_Page>> \o EntryRia}
AgainEdfVocabulary ==
  {E_TocStart, E_TocEnd, E_Call, E_Topic1, E_Topic1Only, E_Type, E_TopicBudget,
   E_Funding, E_Text}
AgainEdfTexts == SeqsUpTo(AgainEdfVocabulary, MaxAgainLines)
OtherEdfTexts == {<<E_TocStart>>, <<E_Call, E_Topic2, E_Type>>}

(***************************************************************************)
(* text_normalize.py: normalize_pdf_text on sequences of characters        *)
(***************************************************************************)
\* the characters U+00A0 and U+00AD, and one of the other invisible ones
NBSP == "nbsp"
SHY == "shy"
\* line 4
INVISIBLE_PDF_CHARS == {SHY, "fffd", "fffe", "ffff"}
\* line 5: the hyphen variants, here '-' and U+2013
HyphenChars == {"-", "endash"}
\* what \s matches once NBSP is replaced
SpaceChars == {" ", "\n", "\r", "\t"}
AlnumChars == LetterChars \cup DigitChars
WordChars == AlnumChars \cup {"_"}
UpperLetters == {c \in LetterChars : LowerChar(c) # c}
\* lines 7-36
_SUFFIXES ==
  {<<"i", "n", "g">>, <<"t", "i", "o", "n">>, <<"s", "i", "o", "n">>,
   <<"m", "e", "n", "t">>, <<"m", "e", "n", "t", "s">>,
   <<"n", "e", "s", "s">>, <<"i", "t", "y">>, <<"a", "b", "l", "e">>,
   <<"i", "b", "l", "e">>, <<"a", "l">>, <<"i", "c">>, <<"i", "v", "e">>,
   <<"o", "u", "s">>, <<"a", "n", "t", "s">>, <<"a", "n", "t">>,
   <<"e", "r", "s">>, <<"e", "r">>, <<"e", "d">>, <<"l", "y">>,
   <<"w", "a", "y", "s">>, <<"w", "a", "y">>, <<"i", "s", "m">>,
   <<"i", "s", "t">>, <<"a", "t", "i", "o", "n">>,
   <<"a", "t", "i", "o", "n", "s">>, <<"i", "o", "n", "s">>,
   <<"e", "n", "t">>, <<"e", "n", "t", "s">>}
\* line 38
_MIDDLE_JOINERS == {<<"a", "n", "d">>, <<"o", "r">>}

\* s.strip() with Python's whitespace
NStrip(s) ==
  LET keep == {k \in 1..Len(s) : s[k] \notin SpaceChars}
  IN IF keep = {} THEN <<>>
     ELSE SubSeq(s, CHOOSE a \in keep : \A b \in keep : a <= b,
                    CHOOSE a \in keep : \A b \in keep : a >= b)
\* the last index of the run of characters of cs that starts at p (p - 1 when
\* s[p] is not in cs)
RECURSIVE RunOf(_, _, _)
RunOf(s, p, cs) ==
  IF p <= Len(s) /\ s[p] \in cs THEN RunOf(s, p + 1, cs) ELSE p - 1
\* \b before position p, s[p] being a word character
WordStart(s, p) == p = 1 \/ s[p - 1] \notin WordChars
\* \b after position e, s[e] being a word character
WordEnd(s, e) == e = Len(s) \/ s[e + 1] \notin WordChars
\* s[a..b] equals w when case is ignored
SameWord(s, a, w) ==
  /\ a + Len(w) - 1 <= Len(s)
  /\ Lower(SubSeq(s, a, a + Len(w) - 1)) = w
\* str.islower() and the test first[:1].isupper() and first[1:].islower()
IsLower(s) == s # <<>> /\ \A k \in 1..Len(s) : s[k] \notin UpperLetters
Capitalised(s) == s # <<>> /\ s[1] \in UpperLetters /\ IsLower(Tail(s))

\* line 74: value.replace(NBSP, " ")
ReplaceNbsp(s) == [k \in 1..Len(s) |-> IF s[k] = NBSP THEN " " ELSE s[k]]
\* line 75
RemoveInvisible(s) == SelectSeq(s, LAMBDA c : c \notin INVISIBLE_PDF_CHARS)
\* line 76: "\r\n" and then "\r" become "\n"
RECURSIVE UnixNewlines(_)
UnixNewlines(s) ==
  IF s = <<>> THEN <<>>
  ELSE IF s[1] = "\r"
       THEN <<"\n">> \o UnixNewlines(IF Len(s) > 1 /\ s[2] = "\n"
                                     THEN SubSeq(s, 3, Len(s)) ELSE Tail(s))
       ELSE <<s[1]>> \o UnixNewlines(Tail(s))
\* lines 5 and 77: HYPHEN_LINE_BREAK.sub(r"\1-\2", text), matches taken from
\* left to right without overlap
RECURSIVE HYPHEN_LINE_BREAK(_)
HYPHEN_LINE_BREAK(s) ==
  IF s = <<>> THEN <<>>
  ELSE LET r == RunOf(s, 3, SpaceChars)
       IN IF /\ Len(s) >= 4
             /\ s[1] \in AlnumChars
             /\ s[2] \in HyphenChars
             /\ \E k \in 3..r : s[k] = "\n"
             /\ r + 1 <= Len(s)
             /\ s[r + 1] \in AlnumChars
          THEN <<s[1], "-", s[r + 1]>> \o HYPHEN_LINE_BREAK(SubSeq(s, r + 2, Len(s)))
          ELSE <<s[1]>> \o HYPHEN_LINE_BREAK(Tail(s))

\* lines 41-44
_merge_case(first, second) ==
  IF Capitalised(first) /\ Capitalised(second) THEN first \o Lower(second)
  ELSE first \o second
\* lines 48-56: the replacement of first, middle, last matched as whole
\* (None: the match is left as it is)
_merge_triplet(first, middle, last) ==
  IF Len(first) < 5 \/ Lower(middle) \notin _MIDDLE_JOINERS
                    \/ Lower(last) \notin _SUFFIXES
  THEN None
  ELSE Some(first \o (IF Capitalised(first) THEN Lower(middle \o last)
                      ELSE middle \o last))
\* lines 58-63
_merge_pair(first, second) ==
  IF Lower(second) \notin _SUFFIXES \/ Len(first) < 3 THEN None
  ELSE Some(_merge_case(first, second))

\* line 65: the match of \b([A-Za-z]{4,})\s+(and|or)\s+([A-Za-z]{2,6})\b at p
\* (ok, the three groups and the last index), case ignored
TripletAt(s, p) ==
  LET e1 == RunOf(s, p, LetterChars)
      w1 == RunOf(s, e1 + 1, SpaceChars)
      e2 == RunOf(s, w1 + 1, LetterChars)
      w2 == RunOf(s, e2 + 1, SpaceChars)
      e3 == RunOf(s, w2 + 1, LetterChars)
  IN [ok |-> /\ WordStart(s, p)
             /\ e1 - p + 1 >= 4
             /\ w1 > e1
             /\ Lower(SubSeq(s, w1 + 1, e2)) \in _MIDDLE_JOINERS
             /\ w2 > e2
             /\ e3 - w2 \in 2..6
             /\ WordEnd(s, e3),
      first |-> SubSeq(s, p, e1), middle |-> SubSeq(s, w1 + 1, e2),
      last |-> SubSeq(s, w2 + 1, e3), end |-> e3]
RECURSIVE SubTriplets(_, _)
SubTriplets(s, p) ==
  IF p > Len(s) THEN <<>>
  ELSE LET m == TripletAt(s, p)
       IN IF m.ok
          THEN LET rep == _merge_triplet(m.first, m.middle, m.last)
               IN (IF rep = None THEN SubSeq(s, p, m.end) ELSE rep[1])
                    \o SubTriplets(s, m.end + 1)
          ELSE <<s[p]>> \o SubTriplets(s, p + 1)
\* line 66: the match of \b([A-Za-z]{3,})\s+([A-Za-z]{2,6})\b at p
PairAt(s, p) ==
  LET e1 == RunOf(s, p, LetterChars)
      w1 == RunOf(s, e1 + 1, SpaceChars)
      e2 == RunOf(s, w1 + 1, LetterChars)
  IN [ok |-> /\ WordStart(s, p)
             /\ e1 - p + 1 >= 3
             /\ w1 > e1
             /\ e2 - w1 \in 2..6
             /\ WordEnd(s, e2),
      first |-> SubSeq(s, p, e1), second |-> SubSeq(s, w1 + 1, e2), end |-> e2]
RECURSIVE SubPairs(_, _)
SubPairs(s, p) ==
  IF p > Len(s) THEN <<>>
  ELSE LET m == PairAt(s, p)
       IN IF m.ok
          THEN LET rep == _merge_pair(m.first, m.second)
               IN (IF rep = None THEN SubSeq(s, p, m.end) ELSE rep[1])
                    \o SubPairs(s, m.end + 1)
          ELSE <<s[p]>> \o SubPairs(s, p + 1)
\* lines 47-68
_collapse_broken_word_fragments(text) == SubPairs(SubTriplets(text, 1), 1)

\* lines 90-96: one re.sub(r"\b<head>\s*on\s*<tail>\b", word, text), case
\* ignored
KnownFixAt(s, p, head, tail) ==
  LET h == p + Len(head) - 1
      w1 == RunOf(s, h + 1, SpaceChars)
      w2 == RunOf(s, w1 + 3, SpaceChars)
      e == w2 + Len(tail)
  IN [ok |-> /\ WordStart(s, p)
             /\ SameWord(s, p, head)
             /\ SameWord(s, w1 + 1, <<"o", "n">>)
             /\ SameWord(s, w2 + 1, tail)
             /\ WordEnd(s, e),
      end |-> e]
RECURSIVE SubKnown(_, _, _, _)
SubKnown(s, p, head, tail) ==
  IF p > Len(s) THEN <<>>
  ELSE LET m == KnownFixAt(s, p, head, tail)
       IN IF m.ok THEN head \o <<"o", "n">> \o tail \o SubKnown(s, m.end + 1, head, tail)
          ELSE <<s[p]>> \o SubKnown(s, p + 1, head, tail)
\* lines 90-96
_apply_known_fixes(text) ==
  LET a == SubKnown(text, 1, <<"r", "e", "s", "p">>, <<"s", "e", "s">>)
      b == SubKnown(a, 1, <<"r", "e", "s", "p">>, <<"d", "e", "r", "s">>)
      c == SubKnown(b, 1, <<"e", "n", "v", "i", "r">>, <<"m", "e", "n", "t", "s">>)
      d == SubKnown(c, 1, <<"p", "e", "r", "s">>, <<"a", "l", "i", "s", "e", "d">>)
  IN SubKnown(d, 1, <<"p", "e", "r", "s">>, <<"a", "l", "i", "z", "e", "d">>)

\* re.split(r"\n", text)
RECURSIVE SplitLines(_)
SplitLines(s) ==
  LET nl == {k \in 1..Len(s) : s[k] = "\n"}
  IN IF nl = {} THEN <<s>>
     ELSE LET k == CHOOSE a \in nl : \A b \in nl : a <= b
          IN <<SubSeq(s, 1, k - 1)>> \o SplitLines(SubSeq(s, k + 1, Len(s)))
\* "\n".join(lines)
RECURSIVE JoinLines(_)
JoinLines(ls) ==
  IF Len(ls) = 1 THEN ls[1] ELSE ls[1] \o <<"\n">> \o JoinLines(Tail(ls))
\* lines 84 and 87: every run of white space (with a line break in it when
\* breaks is TRUE) becomes one space
RECURSIVE CollapseSpace(_, _)
CollapseSpace(s, breaks) ==
  IF s = <<>> THEN <<>>
  ELSE LET r == RunOf(s, 1, SpaceChars)
       IN IF r >= 1 /\ (~breaks \/ \E k \in 1..r : s[k] = "\n")
          THEN <<" ">> \o CollapseSpace(SubSeq(s, r + 1, Len(s)), breaks)
          ELSE IF r >= 1 THEN SubSeq(s, 1, r) \o CollapseSpace(SubSeq(s, r + 1, Len(s)), breaks)
          ELSE <<s[1]>> \o CollapseSpace(Tail(s), breaks)

\* lines 74-77: the text after the repair of hyphen line breaks
Repaired(value) ==
  HYPHEN_LINE_BREAK(UnixNewlines(RemoveInvisible(ReplaceNbsp(value))))
\* the text normalized as a whole, its line breaks kept, in both modes
NormalizeWhole(value, preserve_newlines) ==
  IF value = None \/ value[1] = <<>> THEN <<>>
  ELSE NStrip(_apply_known_fixes(_collapse_broken_word_fragments(Repaired(value[1]))))
\* lines 71-87; value is None for a null
normalize_pdf_text(value, preserve_newlines) ==
  IF value = None \/ value[1] = <<>> THEN <<>>
  ELSE LET text == Repaired(value[1])
       IN IF preserve_newlines
          THEN LET lines == SplitLines(text)
                   cleaned_lines ==
                     [k \in 1..Len(lines) |->
                        _collapse_broken_word_fragments(NStrip(lines[k]))]
               IN NStrip(_apply_known_fixes(JoinLines(cleaned_lines)))
          ELSE NStrip(CollapseSpace(_apply_known_fixes(
                 _collapse_broken_word_fragments(CollapseSpace(text, TRUE))), FALSE))

\* Inputs: texts put together from at most MaxNormPieces pieces
MaxNormPieces == 3
NormPieces ==
  {<<"\n">>, <<"\r">>, <<" ">>, <<"-">>, <<"-", "\n">>, <<SHY>>, <<NBSP>>,
   <<"A", "b", "c">>, <<"E", "d">>, <<"r", "e", "s", "p">>, <<"o", "n", "s", "e", "s">>}
NormTexts == {Flatten(ps) : ps \in SeqsUpTo(NormPieces, MaxNormPieces)}

\* Inputs of _parse_overview_block: a first line "<ACTION> ..." put together
\* from at most MaxOvPieces pieces, and at most one line after it.
MaxOvPieces == 3
\* "8.00", "EUR", "9.00 to 10.00 2", "Around 5.00", "Around 4", "management",
\* "10.00", "3"
OvPieces ==
  {<<Tok("num", 8000)>>, <<Tok("unit", 0)>>,
   <<Tok("num", 9000), Tok("to", 0), Tok("num", 10000), Tok("int", 2)>>,
   <<Tok("around", 0), Tok("num", 5000)>>, <<Tok("around", 0), Tok("int", 4)>>,
   <<Tok("word", 3)>>, <<Tok("num", 10000)>>, <<Tok("int", 3)>>}
OvFirstLines == {<<Tok("act", 1)>> \o Flatten(ps) : ps \in SeqsUpTo(OvPieces, MaxOvPieces)}
OvNextLines == {<<>>, <<<<Tok("int", 3)>>>>, <<<<Tok("num", 10000)>>>>, <<L_T1t>>}
OvTexts == {<<a>> \o b : a \in OvFirstLines, b \in OvNextLines}
\* Long blocks: an optional line before the block, the line "RIA", k lines
\* of which all but line m are "management" and line m is x, and then
\* "8.00 Around 5.00 3"; k is chosen around the 12 iterations of the loop.
OvResolving == <<Tok("num", 8000), Tok("around", 0), Tok("num", 5000), Tok("int", 3)>>
OvRun(k, m, x) == [j \in 1..k |-> IF j = m THEN x ELSE L_Text]
OvLongTexts ==
  {pre \o <<<<Tok("act", 1)>>>> \o OvRun(k, m, x) \o <<OvResolving>> :
     pre \in {<<>>, <<L_Text>>}, k \in (OverviewCap - 3)..(OverviewCap - 1),
     m \in {2, OverviewCap - 3}, x \in {L_Text, L_CallId, L_T1t, L_Cluster}}
OvStarts == 1..2

(***************************************************************************)
(* Input documents with contents-listing lines and unparsable overviews    *)
(***************************************************************************)
\* Documents of up to MaxScanLines lines of the vocabulary below.
MaxScanLines == 3

\* "management ..... 7"
L_TextDots == <<Tok("word", 3), Tok("dots", 7)>>
\* "HORIZON-CL3-2026-01-BM-01: border ..... 5"
L_T1tDots == <<Tok("topic", 1), GTok("colon", 0), Tok("word", 1), Tok("dots", 5)>>
\* "Call - name ..... 12"
L_ClusterDots == <<Tok("callpfx", 0), Tok("word", 4), Tok("dots", 12)>>
\* "RIA management": an action-type line that starts no overview block
L_ActOnly == <<Tok("act", 1), Tok("word", 3)>>

ScanVocabulary ==
  {L_T1t, L_T2t, L_T1tDots, L_Text, L_TextDots, L_OvAround, L_ActOnly, L_Page,
   L_Cluster, L_ClusterDots, L_CallId, L_Opening, L_Deadline}
\* the line caps of the four lookahead loops together
LookaheadCaps == TitleLinesCap + OverviewCap + DescLinesCap + ExtraLinesCap
\* a topic line, n lines "management", "Opening: 12 may" and a second topic
\* line, with n above the caps
LongDocuments ==
  {<<L_T1t>> \o [j \in 1..n |-> L_Text] \o <<L_Opening, L_T2t>> :
     n \in (LookaheadCaps + 1)..(LookaheadCaps + 2)}
ScanDocuments == SeqsUpTo(ScanVocabulary, MaxScanLines) \union LongDocuments

\* Documents of up to MaxLiveLines lines with one line for every rule of the
\* main loop; after a topic line, L_ActOnly is an overview that cannot be parsed.
MaxLiveLines == 3
LiveVocabulary ==
  {L_T1t, L_ActOnly, L_Page, L_Cluster, L_CallId, L_Opening, L_Deadline}
LiveDocuments == SeqsUpTo(LiveVocabulary, MaxLiveLines)

(***************************************************************************)
(* State                                                                   *)
(***************************************************************************)
VARIABLES
  text,                 \* raw_lines: the normalised non-empty input lines
  lines,                \* after _merge_split_identifier_lines
  i,                    \* index of the main loop (1-based)
  pc,                   \* "merge", "scan", "done" ("idle": no parse_calls run)
  current_page, current_cluster, current_stage, current_call_round,
  current_cluster_page, current_call_id, current_opening, current_deadline,
  best_by_topic,        \* values of the dict, in insertion order
  flushed,              \* history: every row flush_topic built, in order
  rows                  \* the returned list

\* pending_topic_id and the other pending_* locals are set and reset within
\* one iteration of the main loop (the flush at line 1027 ends every topic
\* iteration), so no step boundary sees them set: they are values of TopicLine.

\* parse_edf
VARIABLES
  e_lines,              \* raw_lines after _norm
  e_i,                  \* index of the loop over raw_lines (1-based)
  e_pc,                 \* "scan", "done" ("idle": no parse_edf run)
  in_toc,
  records,
  current,              \* index in records of the current topic, 0 for None
  e_current_call_id,    \* current_call_id of parse_edf
  current_call_section, \* 0 for None
  current_call_record,  \* index in records, 0 for None
  e_rows                \* the returned list

\* _date_filter_match
VARIABLES
  d_value, d_filter,    \* the arguments
  d_pc,                 \* "call", "ret" ("idle": no call)
  d_rng, d_row_date,    \* the locals rng and row_date
  d_result              \* the returned boolean

\* filter_rows
VARIABLES
  f_rows, action_types, min_budget_m, opening_filter, deadline_filter,
                        \* the arguments
  f_i,                  \* index of the loop over rows (1-based)
  f_pc,                 \* "call", "loop", "ret" ("idle": no call)
  allowed,              \* the local allowed
  filtered              \* the list being built, returned at the end

\* _process_pdf_key
VARIABLES
  parsed,               \* history: the list parse_calls returned (line 1766)
  p_rows,               \* rows
  p_args,               \* action_types, min_budget_m and the date filters
  p_key,                \* OPENAI_API_KEY is set
  p_pc,                 \* "derive", "filter", "openai", "normalise", "pop",
                        \* "write" ("idle": no call)
  p_i,                  \* index of the loop over rows of the OpenAI block
  p_n,                  \* n, the summaries obtained
  p_clock,              \* what context.get_remaining_time_in_millis() reports
  p_cache,              \* desc_cache
  p_filtered,           \* history: the list filter_rows returned (line 1773)
  p_seen,               \* history: the rows the OpenAI loop reached, each with
                        \* the remaining time read before it
  p_calls               \* history: the rows a summarization request was sent for

\* several invocations of parse_calls or of parse_edf
VARIABLES
  other,                \* the locals of the invocation that is not running
  results,              \* history: <<text, rows>> of the invocations that ended
  runs                  \* invocations started

VARIABLES
  n_value,      \* normalize_pdf_text: the argument value (None: null)
  n_preserve,   \* the argument preserve_newlines
  n_result,     \* the returned text (None before the return)
  n_pc          \* "call", "done"

VARIABLES
  o_lines,      \* _parse_overview_block: the argument lines
  o_start,      \* the argument start_i (counted from 1)
  o_result,     \* the returned pair (None before the return)
  o_pc          \* "call", "done"

hvars == <<text, lines, i, pc, current_page, current_cluster, current_stage,
           current_call_round, current_cluster_page, current_call_id,
           current_opening, current_deadline, best_by_topic, flushed, rows>>
evars == <<e_lines, e_i, e_pc, in_toc, records, current, e_current_call_id,
           current_call_section, current_call_record, e_rows>>
dvars == <<d_value, d_filter, d_pc, d_rng, d_row_date, d_result>>
fvars == <<f_rows, action_types, min_budget_m, opening_filter, deadline_filter,
           f_i, f_pc, allowed, filtered>>
pvars == <<parsed, p_rows, p_args, p_key, p_pc, p_i, p_n, p_clock, p_cache,
           p_filtered, p_seen, p_calls>>
avars == <<other, results, runs>>
nvars == <<n_value, n_preserve, n_result, n_pc>>
ovars == <<o_lines, o_start, o_result, o_pc>>

(***************************************************************************)
(* parse_calls as a state machine                                          *)
(***************************************************************************)
HInit ==
  /\ text \in Documents
  /\ lines = <<>>
  /\ i = 1
  /\ pc = "merge"
  /\ current_page = None
  /\ current_cluster = None
  /\ current_stage = None
  /\ current_call_round = None
  /\ current_cluster_page = None
  /\ current_call_id = None
  /\ current_opening = None
  /\ current_deadline = None
  /\ best_by_topic = <<>>
  /\ flushed = <<>>
  /\ rows = <<>>

Ctx ==
  [cluster |-> current_cluster, stage |-> current_stage,
   call_round |-> current_call_round, page |-> current_page,
   cluster_page |-> current_cluster_page, call_id |-> current_call_id,
   opening |-> current_opening, deadline |-> current_deadline]

Scanning == pc = "scan" /\ i <= Len(lines)

\* lines 705-707
Prepare ==
  /\ pc = "merge"
  /\ lines' = _merge_split_identifier_lines(text)
  /\ pc' = "scan"
  /\ UNCHANGED <<text, i, current_page, current_cluster, current_stage,
                 current_call_round, current_cluster_page, current_call_id,
                 current_opening, current_deadline, best_by_topic, flushed, rows>>
  /\ UNCHANGED <<evars, dvars, fvars, pvars, avars, nvars, ovars>>

\* lines 849-854
PageMarker ==
  /\ Scanning
  /\ IsPageMarker(lines[i])
  /\ current_page' = Some(lines[i][1].v)
  /\ i' = i + 1
  /\ UNCHANGED <<text, lines, pc, current_cluster, current_stage,
                 current_call_round, current_cluster_page, current_call_id,
                 current_opening, current_deadline, best_by_topic, flushed, rows>>
  /\ UNCHANGED <<evars, dvars, fvars, pvars, avars, nvars, ovars>>

\* lines 856-870 (flush_topic returns at once: nothing is pending)
ClusterHeader ==
  /\ Scanning
  /\ ~IsPageMarker(lines[i])
  /\ StartsCall(lines[i])
  /\ LET c == _parse_cluster_line(lines[i])
     IN /\ current_cluster' = c.cluster
        /\ current_stage' = c.stage
        /\ current_call_round' = c.call_round
        /\ current_cluster_page' = c.page
  /\ current_call_id' = None
  /\ current_opening' = None
  /\ current_deadline' = None
  /\ i' = i + 1
  /\ UNCHANGED <<text, lines, pc, current_page, best_by_topic, flushed, rows>>
  /\ UNCHANGED <<evars, dvars, fvars, pvars, avars, nvars, ovars>>

\* lines 872-877
CallIdLine ==
  /\ Scanning
  /\ ~IsPageMarker(lines[i]) /\ ~StartsCall(lines[i])
  /\ HasCallId(lines[i]) /\ ~HasTopicId(lines[i])
  /\ current_call_id' = Some(CallIdOf(lines[i]))
  /\ i' = i + 1
  /\ UNCHANGED <<text, lines, pc, current_page, current_cluster, current_stage,
                 current_call_round, current_cluster_page,
                 current_opening, current_deadline, best_by_topic, flushed, rows>>
  /\ UNCHANGED <<evars, dvars, fvars, pvars, avars, nvars, ovars>>

NotCallLine(ln) ==
  ~IsPageMarker(ln) /\ ~StartsCall(ln) /\ ~(HasCallId(ln) /\ ~HasTopicId(ln))

\* lines 880-884
OpeningLine ==
  /\ Scanning
  /\ NotCallLine(lines[i])
  /\ HasLabel(lines[i], "opening")
  /\ current_opening' = LabelText(lines[i], "opening")
  /\ i' = i + 1
  /\ UNCHANGED <<text, lines, pc, current_page, current_cluster, current_stage,
                 current_call_round, current_cluster_page, current_call_id,
                 current_deadline, best_by_topic, flushed, rows>>
  /\ UNCHANGED <<evars, dvars, fvars, pvars, avars, nvars, ovars>>

\* lines 886-890
DeadlineLine ==
  /\ Scanning
  /\ NotCallLine(lines[i])
  /\ ~HasLabel(lines[i], "opening")
  /\ HasLabel(lines[i], "deadline")
  /\ current_deadline' = LabelText(lines[i], "deadline")
  /\ i' = i + 1
  /\ UNCHANGED <<text, lines, pc, current_page, current_cluster, current_stage,
                 current_call_round, current_cluster_page, current_call_id,
                 current_opening, best_by_topic, flushed, rows>>
  /\ UNCHANGED <<evars, dvars, fvars, pvars, avars, nvars, ovars>>

NotDateLine(ln) ==
  NotCallLine(ln) /\ ~HasLabel(ln, "opening") /\ ~HasLabel(ln, "deadline")

\* lines 892-1028: the topic line, its lookahead and the flush (761-843).
\* flush_topic sets current_call_id from the topic id when none is current.
TopicLine ==
  /\ Scanning
  /\ NotDateLine(lines[i])
  /\ HasTopicId(lines[i])
  /\ \E la \in {TopicLookahead(lines, i)} :
       LET tid == TopicIdOf(lines[i])
           call == IF current_call_id # None THEN current_call_id
                   ELSE _derive_call_id_from_topic(tid)
       IN \E row \in {BuildRow([Ctx EXCEPT !.call_id = call], tid, la.parts,
                               current_page, la.ov)} :
            /\ current_call_id' = call
            /\ best_by_topic' = Put(best_by_topic, row)
            /\ flushed' = Append(flushed, row)
            /\ i' = la.i
  /\ UNCHANGED <<text, lines, pc, current_page, current_cluster, current_stage,
                 current_call_round, current_cluster_page,
                 current_opening, current_deadline, rows>>
  /\ UNCHANGED <<evars, dvars, fvars, pvars, avars, nvars, ovars>>

\* the main loop without the final i += 1
OtherLineStuck ==
  /\ Scanning
  /\ NotDateLine(lines[i])
  /\ ~HasTopicId(lines[i])
  /\ UNCHANGED hvars
  /\ UNCHANGED <<evars, dvars, fvars, pvars, avars, nvars, ovars>>

\* line 1030
OtherLine ==
  /\ Scanning
  /\ NotDateLine(lines[i])
  /\ ~HasTopicId(lines[i])
  /\ i' = i + 1
  /\ UNCHANGED <<text, lines, pc, current_page, current_cluster, current_stage,
                 current_call_round, current_cluster_page, current_call_id,
                 current_opening, current_deadline, best_by_topic, flushed, rows>>
  /\ UNCHANGED <<evars, dvars, fvars, pvars, avars, nvars, ovars>>

\* lines 1032-1036 (the final flush_topic finds nothing pending)
Finish ==
  /\ pc = "scan"
  /\ i > Len(lines)
  /\ rows' = SortRows(best_by_topic)
  /\ pc' = "done"
  /\ UNCHANGED <<text, lines, i, current_page, current_cluster, current_stage,
                 current_call_round, current_cluster_page, current_call_id,
                 current_opening, current_deadline, best_by_topic, flushed>>
  /\ UNCHANGED <<evars, dvars, fvars, pvars, avars, nvars, ovars>>

HNext ==
  \/ Prepare
  \/ PageMarker
  \/ ClusterHeader
  \/ CallIdLine
  \/ OpeningLine
  \/ DeadlineLine
  \/ TopicLine
  \/ OtherLine
  \/ Finish

(***************************************************************************)
(* parse_edf as a state machine                                            *)
(***************************************************************************)
EStart(documents) ==
  /\ e_lines \in documents
  /\ e_i = 1
  /\ e_pc = "scan"
  /\ in_toc = FALSE
  /\ records = <<>>
  /\ current = 0
  /\ e_current_call_id = None
  /\ current_call_section = 0
  /\ current_call_record = 0
  /\ e_rows = <<>>

EInit == EStart(EdfDocuments)
ETextInit == EStart(EdfTextDocuments)

EScanning == e_pc = "scan" /\ e_i <= Len(e_lines)

\* lines 239-241
EdfTocStart ==
  /\ EScanning
  /\ e_lines[e_i].kind = "toc_start"
  /\ in_toc' = TRUE
  /\ e_i' = e_i + 1
  /\ UNCHANGED <<e_lines, e_pc, records, current, e_current_call_id,
                 current_call_section, current_call_record, e_rows>>
  /\ UNCHANGED <<hvars, dvars, fvars, pvars, avars, nvars, ovars>>

\* lines 242-244
EdfTocEnd ==
  /\ EScanning
  /\ in_toc
  /\ e_lines[e_i].kind = "toc_end"
  /\ in_toc' = FALSE
  /\ e_i' = e_i + 1
  /\ UNCHANGED <<e_lines, e_pc, records, current, e_current_call_id,
                 current_call_section, current_call_record, e_rows>>
  /\ UNCHANGED <<hvars, dvars, fvars, pvars, avars, nvars, ovars>>

\* a topic header inside the table of contents opens a record
EdfTocLeak ==
  /\ EScanning
  /\ in_toc
  /\ e_lines[e_i].kind \notin {"toc_start", "toc_end"}
  /\ records' = IF e_lines[e_i].kind = "topic_line"
                THEN Append(records, TopicRecord(e_current_call_id, e_lines[e_i], FALSE))
                ELSE records
  /\ e_i' = e_i + 1
  /\ UNCHANGED <<e_lines, e_pc, in_toc, current, e_current_call_id,
                 current_call_section, current_call_record, e_rows>>
  /\ UNCHANGED <<hvars, dvars, fvars, pvars, avars, nvars, ovars>>

\* lines 245-246
EdfTocSkip ==
  /\ EScanning
  /\ in_toc
  /\ e_lines[e_i].kind \notin {"toc_start", "toc_end"}
  /\ e_i' = e_i + 1
  /\ UNCHANGED <<e_lines, e_pc, in_toc, records, current, e_current_call_id,
                 current_call_section, current_call_record, e_rows>>
  /\ UNCHANGED <<hvars, dvars, fvars, pvars, avars, nvars, ovars>>

OutsideToc == EScanning /\ ~in_toc /\ e_lines[e_i].kind # "toc_start"

\* lines 249-278
EdfCallHeader ==
  /\ OutsideToc
  /\ e_lines[e_i].kind = "call"
  /\ e_current_call_id' = Some(e_lines[e_i].v)
  /\ current_call_section' = e_lines[e_i].sec
  /\ records' = Append(records, CallRecord(e_lines[e_i]))
  /\ current_call_record' = Len(records) + 1
  /\ e_i' = e_i + 1
  /\ UNCHANGED <<e_lines, e_pc, in_toc, current, e_rows>>
  /\ UNCHANGED <<hvars, dvars, fvars, pvars, avars, nvars, ovars>>

\* lines 281-287 with ensure_current (204-234)
EdfTopicLine ==
  /\ OutsideToc
  /\ e_lines[e_i].kind = "topic_line"
  /\ records' = Append(LeaveDesc(records, current),
                       TopicRecord(e_current_call_id, e_lines[e_i], FALSE))
  /\ current' = Len(records) + 1
  /\ e_i' = e_i + 1
  /\ UNCHANGED <<e_lines, e_pc, in_toc, e_current_call_id,
                 current_call_section, current_call_record, e_rows>>
  /\ UNCHANGED <<hvars, dvars, fvars, pvars, avars, nvars, ovars>>

\* lines 290-295 with ensure_current (204-234)
EdfTopicOnly ==
  /\ OutsideToc
  /\ e_lines[e_i].kind = "topic_only"
  /\ records' = Append(LeaveDesc(records, current),
                       TopicRecord(e_current_call_id, e_lines[e_i], TRUE))
  /\ current' = Len(records) + 1
  /\ e_i' = e_i + 1
  /\ UNCHANGED <<e_lines, e_pc, in_toc, e_current_call_id,
                 current_call_section, current_call_record, e_rows>>
  /\ UNCHANGED <<hvars, dvars, fvars, pvars, avars, nvars, ovars>>

IsFieldLine(ln) == ln.kind \notin {"toc_start", "call", "topic_line", "topic_only"}

\* lines 297-298
EdfNoCurrent ==
  /\ OutsideToc
  /\ IsFieldLine(e_lines[e_i])
  /\ current = 0
  /\ e_i' = e_i + 1
  /\ UNCHANGED <<e_lines, e_pc, in_toc, records, current, e_current_call_id,
                 current_call_section, current_call_record, e_rows>>
  /\ UNCHANGED <<hvars, dvars, fvars, pvars, avars, nvars, ovars>>

\* lines 300-381: the field rules on the current topic record; a call budget
\* is also written to the current CALL record (lines 315-316)
EdfFieldLine ==
  /\ OutsideToc
  /\ IsFieldLine(e_lines[e_i])
  /\ current # 0
  /\ LET ln == e_lines[e_i]
         withCall ==
           IF _extract_call_budget_eur_m(ln) # None /\ current_call_record # 0
           THEN [records EXCEPT ![current_call_record].call_indicative_budget_eur_m =
                                   _extract_call_budget_eur_m(ln)]
           ELSE records
     IN records' = [withCall EXCEPT ![current] = ApplyFieldLine(withCall[current], ln)]
  /\ e_i' = e_i + 1
  /\ UNCHANGED <<e_lines, e_pc, in_toc, current, e_current_call_id,
                 current_call_section, current_call_record, e_rows>>
  /\ UNCHANGED <<hvars, dvars, fvars, pvars, avars, nvars, ovars>>

\* lines 383-394
EdfFinish ==
  /\ e_pc = "scan"
  /\ e_i > Len(e_lines)
  /\ e_rows' = [k \in 1..Len(records) |-> PostPass(records[k])]
  /\ e_pc' = "done"
  /\ UNCHANGED <<e_lines, e_i, in_toc, records, current, e_current_call_id,
                 current_call_section, current_call_record>>
  /\ UNCHANGED <<hvars, dvars, fvars, pvars, avars, nvars, ovars>>

ENext ==
  \/ EdfTocStart
  \/ EdfTocEnd
  \/ EdfTocSkip
  \/ EdfCallHeader
  \/ EdfTopicLine
  \/ EdfTopicOnly
  \/ EdfNoCurrent
  \/ EdfFieldLine
  \/ EdfFinish

(***************************************************************************)
(* One call of _date_filter_match                                          *)
(***************************************************************************)
DInit ==
  /\ d_value \in ValueInputs
  /\ d_filter \in FilterInputs
  /\ d_pc = "call"
  /\ d_rng = None
  /\ d_row_date = None
  /\ d_result = FALSE

\* lines 278-280: the filter names no period, the prefix test decides
DateFilterFallback ==
  /\ d_pc = "call"
  /\ _parse_filter_range(d_filter) = None
  /\ d_rng' = None
  /\ d_row_date' = None
  /\ d_result' = _date_filter_match(d_value, d_filter)
  /\ d_pc' = "ret"
  /\ UNCHANGED <<d_value, d_filter>>
  /\ UNCHANGED <<hvars, evars, fvars, pvars, avars, nvars, ovars>>

\* lines 282-289: the filter names a period, the row date is compared to its end
DateFilterPeriod ==
  /\ d_pc = "call"
  /\ _parse_filter_range(d_filter) # None
  /\ d_rng' = _parse_filter_range(d_filter)
  /\ d_row_date' = _parse_date(d_value)
  /\ d_result' = _date_filter_match(d_value, d_filter)
  /\ d_pc' = "ret"
  /\ UNCHANGED <<d_value, d_filter>>
  /\ UNCHANGED <<hvars, evars, fvars, pvars, avars, nvars, ovars>>

DNext ==
  \/ DateFilterFallback
  \/ DateFilterPeriod

(***************************************************************************)
(* One call of filter_rows                                                 *)
(***************************************************************************)
FInit ==
  /\ f_rows \in FilterRowLists
  /\ action_types \in ActionTypeLists
  /\ min_budget_m \in MinBudgets
  /\ opening_filter \in OpeningFilters
  /\ deadline_filter \in DeadlineFilters
  /\ f_i = 1
  /\ f_pc = "call"
  /\ allowed = None
  /\ filtered = <<>>

fargs == <<f_rows, action_types, min_budget_m, opening_filter, deadline_filter>>

\* lines 299-305: the allow-list is normalised, the output list is empty
FilterAllowed ==
  /\ f_pc = "call"
  /\ allowed' = AllowedOf(action_types)
  /\ filtered' = <<>>
  /\ f_pc' = "loop"
  /\ UNCHANGED <<fargs, f_i>>
  /\ UNCHANGED <<hvars, evars, dvars, pvars, avars, nvars, ovars>>

\* the row is appended at the front instead of the end
KeepRowFirst ==
  /\ f_pc = "loop"
  /\ f_i <= Len(f_rows)
  /\ TypeOk(f_rows[f_i], allowed)
  /\ BudgetOk(f_rows[f_i], min_budget_m)
  /\ DatesOk(f_rows[f_i], opening_filter, deadline_filter)
  /\ filtered' = <<f_rows[f_i]>> \o filtered
  /\ f_i' = f_i + 1
  /\ UNCHANGED <<fargs, f_pc, allowed>>
  /\ UNCHANGED <<hvars, evars, dvars, pvars, avars, nvars, ovars>>

\* lines 306-325: one of the four tests fails, the loop continues
SkipRow ==
  /\ f_pc = "loop"
  /\ f_i <= Len(f_rows)
  /\ \/ ~TypeOk(f_rows[f_i], allowed)
     \/ ~BudgetOk(f_rows[f_i], min_budget_m)
     \/ ~DatesOk(f_rows[f_i], opening_filter, deadline_filter)
  /\ f_i' = f_i + 1
  /\ UNCHANGED <<fargs, f_pc, allowed, filtered>>
  /\ UNCHANGED <<hvars, evars, dvars, pvars, avars, nvars, ovars>>

\* line 327: every test passed, the row is appended
KeepRow ==
  /\ f_pc = "loop"
  /\ f_i <= Len(f_rows)
  /\ TypeOk(f_rows[f_i], allowed)
  /\ BudgetOk(f_rows[f_i], min_budget_m)
  /\ DatesOk(f_rows[f_i], opening_filter, deadline_filter)
  /\ filtered' = Append(filtered, f_rows[f_i])
  /\ f_i' = f_i + 1
  /\ UNCHANGED <<fargs, f_pc, allowed>>
  /\ UNCHANGED <<hvars, evars, dvars, pvars, avars, nvars, ovars>>

\* line 329
FilterReturn ==
  /\ f_pc = "loop"
  /\ f_i > Len(f_rows)
  /\ f_pc' = "ret"
  /\ UNCHANGED <<fargs, f_i, allowed, filtered>>
  /\ UNCHANGED <<hvars, evars, dvars, pvars, avars, nvars, ovars>>

FNext ==
  \/ FilterAllowed
  \/ SkipRow
  \/ KeepRow
  \/ FilterReturn

(***************************************************************************)
(* One call of _process_pdf_key, from the return of parse_calls            *)
(***************************************************************************)
PInit ==
  /\ parsed \in PostRowLists
  /\ p_rows = parsed
  /\ p_args \in {Some([action_types |-> a, min_budget_m |-> m,
                       opening_filter |-> Some(<<>>), deadline_filter |-> Some(<<>>)]) :
                   a \in {None, Some(<<S_ria, S_CSA>>)}, m \in {Some(0), Some(6)}}
  /\ p_key \in BOOLEAN
  /\ p_pc = "derive"
  /\ p_i = 1
  /\ p_n = 0
  /\ p_clock \in Clocks
  /\ p_cache = <<>>
  /\ p_filtered = <<>>
  /\ p_seen = <<>>
  /\ p_calls = <<>>

\* lines 1768-1771: every row gets the derived budget
DeriveBudgets ==
  /\ p_pc = "derive"
  /\ p_rows' = [k \in 1..Len(p_rows) |-> DeriveBudget(p_rows[k])]
  /\ p_pc' = "filter"
  /\ UNCHANGED <<parsed, p_args, p_key, p_i, p_n, p_clock, p_cache, p_filtered,
                 p_seen, p_calls>>
  /\ UNCHANGED <<hvars, evars, dvars, fvars, avars, nvars, ovars>>

\* the row as filter_rows is asked to keep it
PassesFilters(r) ==
  /\ TypeOk(r, AllowedOf(p_args[1].action_types))
  /\ BudgetOk(r, p_args[1].min_budget_m)
  /\ DatesOk(r, p_args[1].opening_filter, p_args[1].deadline_filter)

\* lines 1773-1779: rows = filter_rows(rows, ...)
FilterRows ==
  /\ p_pc = "filter"
  /\ p_rows' = SelectSeq(p_rows, PassesFilters)
  /\ p_filtered' = p_rows'
  /\ p_pc' = "openai"
  /\ p_i' = 1
  /\ p_n' = 0
  /\ UNCHANGED <<parsed, p_args, p_key, p_clock, p_cache, p_seen, p_calls>>
  /\ UNCHANGED <<hvars, evars, dvars, fvars, avars, nvars, ovars>>

\* lines 1785-1795: the loop reaches row p_i with time left
InLoop ==
  /\ p_pc = "openai"
  /\ p_key
  /\ p_i <= Len(p_rows)
  /\ p_n < OPENAI_MAX_TOPICS
\* the loop without the test of the remaining time
OpenAiAnyTime == InLoop
\* lines 1785-1795: the remaining time was read and is not low
OpenAiRow == InLoop /\ ~LowTime(p_clock)
\* the row was reached; time passes while it is handled
Reached ==
  /\ p_seen' = Append(p_seen, [row |-> p_i, ms |-> p_clock])
  /\ p_clock' \in LaterClocks(p_clock)
\* clean_body of row p_i (lines 361, 1797); no body exceeds OPENAI_BODY_MAX_CHARS
CleanBody == Strip(OrEmpty(p_rows[p_i].topic_body))

\* lines 1797-1803: no body, or a description of 80 characters or more
OpenAiSkip ==
  /\ OpenAiRow
  /\ ~NeedsSummary(p_rows[p_i])
  /\ Reached
  /\ p_i' = p_i + 1
  /\ UNCHANGED <<parsed, p_rows, p_args, p_key, p_pc, p_n, p_cache, p_filtered,
                 p_calls>>
  /\ UNCHANGED <<hvars, evars, dvars, fvars, avars, nvars, ovars>>

\* lines 1805-1815 and 368-369: the body is in desc_cache, no request is sent
OpenAiCached ==
  /\ OpenAiRow
  /\ NeedsSummary(p_rows[p_i])
  /\ CleanBody \in DOMAIN p_cache
  /\ Reached
  /\ p_rows' = [p_rows EXCEPT ![p_i].topic_description = Some(p_cache[CleanBody])]
  /\ p_n' = IF p_cache[CleanBody] # <<>> THEN p_n + 1 ELSE p_n
  /\ p_i' = p_i + 1
  /\ UNCHANGED <<parsed, p_args, p_key, p_pc, p_cache, p_filtered, p_calls>>
  /\ UNCHANGED <<hvars, evars, dvars, fvars, avars, nvars, ovars>>

\* a summary requested without the test of the remaining time
OpenAiSummaryLate ==
  /\ OpenAiAnyTime
  /\ NeedsSummary(p_rows[p_i])
  /\ CleanBody \notin DOMAIN p_cache
  /\ Reached
  /\ p_calls' = Append(p_calls, p_i)
  /\ p_cache' = CachePut(p_cache, CleanBody, Summary)
  /\ p_rows' = [p_rows EXCEPT ![p_i].topic_description = Some(Summary)]
  /\ p_n' = p_n + 1
  /\ p_i' = p_i + 1
  /\ UNCHANGED <<parsed, p_args, p_key, p_pc, p_filtered>>
  /\ UNCHANGED <<hvars, evars, dvars, fvars, avars, nvars, ovars>>

\* lines 1805-1813 and 400-410: the summarizer answered with a text
OpenAiSummary ==
  /\ OpenAiRow
  /\ NeedsSummary(p_rows[p_i])
  /\ CleanBody \notin DOMAIN p_cache
  /\ Reached
  /\ p_calls' = Append(p_calls, p_i)
  /\ p_cache' = CachePut(p_cache, CleanBody, Summary)
  /\ p_rows' = [p_rows EXCEPT ![p_i].topic_description = Some(Summary)]
  /\ p_n' = p_n + 1
  /\ p_i' = p_i + 1
  /\ UNCHANGED <<parsed, p_args, p_key, p_pc, p_filtered>>
  /\ UNCHANGED <<hvars, evars, dvars, fvars, avars, nvars, ovars>>

\* a failed request that ends the loop over the rows
OpenAiFailedStops ==
  /\ OpenAiRow
  /\ NeedsSummary(p_rows[p_i])
  /\ CleanBody \notin DOMAIN p_cache
  /\ Reached
  /\ p_calls' = Append(p_calls, p_i)
  /\ p_cache' = CachePut(p_cache, CleanBody, <<>>)
  /\ p_rows' = [p_rows EXCEPT ![p_i].topic_description = Some(<<>>)]
  /\ p_pc' = "normalise"
  /\ UNCHANGED <<parsed, p_args, p_key, p_i, p_n, p_filtered>>
  /\ UNCHANGED <<hvars, evars, dvars, fvars, avars, nvars, ovars>>

\* lines 1805-1815 and 400-416: the request failed (network error, timeout,
\* unparsable or empty answer); _openai_topic_description returned ""
OpenAiFailed ==
  /\ OpenAiRow
  /\ NeedsSummary(p_rows[p_i])
  /\ CleanBody \notin DOMAIN p_cache
  /\ Reached
  /\ p_calls' = Append(p_calls, p_i)
  /\ p_cache' = CachePut(p_cache, CleanBody, <<>>)
  /\ p_rows' = [p_rows EXCEPT ![p_i].topic_description = Some(<<>>)]
  /\ p_i' = p_i + 1
  /\ UNCHANGED <<parsed, p_args, p_key, p_pc, p_n, p_filtered>>
  /\ UNCHANGED <<hvars, evars, dvars, fvars, avars, nvars, ovars>>

\* lines 1783-1795: no key, the rows are exhausted, the cap is reached, or the
\* remaining time read before row p_i is below 8 seconds
OpenAiDone ==
  /\ p_pc = "openai"
  /\ ~OpenAiRow
  /\ p_seen' = IF InLoop THEN Append(p_seen, [row |-> p_i, ms |-> p_clock]) ELSE p_seen
  /\ p_pc' = "normalise"
  /\ UNCHANGED <<parsed, p_rows, p_args, p_key, p_i, p_n, p_clock, p_cache,
                 p_filtered, p_calls>>
  /\ UNCHANGED <<hvars, evars, dvars, fvars, avars, nvars, ovars>>

\* lines 1817-1824: null descriptions become "", missing budgets are derived
Normalise ==
  /\ p_pc = "normalise"
  /\ p_rows' = [k \in 1..Len(p_rows) |-> NormaliseRow(p_rows[k])]
  /\ p_pc' = "pop"
  /\ UNCHANGED <<parsed, p_args, p_key, p_i, p_n, p_clock, p_cache, p_filtered,
                 p_seen, p_calls>>
  /\ UNCHANGED <<hvars, evars, dvars, fvars, avars, nvars, ovars>>

\* lines 1826-1830: topic_body is removed, the rows go to write_xlsx
PopBodies ==
  /\ p_pc = "pop"
  /\ p_rows' = [k \in 1..Len(p_rows) |-> PopBody(p_rows[k])]
  /\ p_pc' = "write"
  /\ UNCHANGED <<parsed, p_args, p_key, p_i, p_n, p_clock, p_cache, p_filtered,
                 p_seen, p_calls>>
  /\ UNCHANGED <<hvars, evars, dvars, fvars, avars, nvars, ovars>>

PNext ==
  \/ DeriveBudgets
  \/ FilterRows
  \/ OpenAiSkip
  \/ OpenAiCached
  \/ OpenAiSummary
  \/ OpenAiFailed
  \/ OpenAiDone
  \/ Normalise
  \/ PopBodies

(***************************************************************************)
(* Invocations of a parser: each has its own locals; the one that runs has *)
(* them in the variables of the parser, the other waits in `other`         *)
(***************************************************************************)
\* the scanner context is one for all invocations: a new invocation meets
\* what the waiting one left in it
HShared(t) ==
  IF other = None
  THEN <<t, <<>>, 1, "merge", None, None, None, None, None, None, None, None,
         <<>>, <<>>, <<>>>>
  ELSE <<t, <<>>, 1, "merge", other[1][5], other[1][6], other[1][7], other[1][8],
         other[1][9], other[1][10], other[1][11], other[1][12], <<>>, <<>>, <<>>>>
\* the locals of parse_calls at entry (lines 703-733), in the order of hvars
HFresh(t) ==
  <<t, <<>>, 1, "merge", None, None, None, None, None, None, None, None,
    <<>>, <<>>, <<>>>>
\* the locals of parse_edf at entry (lines 186-193), in the order of evars
EFresh(ls) == <<ls, 1, "scan", FALSE, <<>>, 0, None, 0, 0, <<>>>>

\* an invocation of parse_calls gets the processor with the locals s
HResume(s) ==
  /\ text' = s[1] /\ lines' = s[2] /\ i' = s[3] /\ pc' = s[4]
  /\ current_page' = s[5] /\ current_cluster' = s[6] /\ current_stage' = s[7]
  /\ current_call_round' = s[8] /\ current_cluster_page' = s[9]
  /\ current_call_id' = s[10] /\ current_opening' = s[11]
  /\ current_deadline' = s[12] /\ best_by_topic' = s[13] /\ flushed' = s[14]
  /\ rows' = s[15]
EResume(s) ==
  /\ e_lines' = s[1] /\ e_i' = s[2] /\ e_pc' = s[3] /\ in_toc' = s[4]
  /\ records' = s[5] /\ current' = s[6] /\ e_current_call_id' = s[7]
  /\ current_call_section' = s[8] /\ current_call_record' = s[9]
  /\ e_rows' = s[10]

\* a second invocation of parse_calls is started, on the same or another text
StartCalls ==
  /\ pc # "idle"
  /\ other = None
  /\ runs < MaxRuns
  /\ \E u \in OtherCallTexts \cup {text} : other' = Some(HFresh(u))
  /\ runs' = runs + 1
  /\ UNCHANGED results
  /\ UNCHANGED <<hvars, evars, dvars, fvars, pvars, nvars, ovars>>
StartEdf ==
  /\ e_pc # "idle"
  /\ other = None
  /\ runs < MaxRuns
  /\ \E u \in OtherEdfTexts \cup {e_lines} : other' = Some(EFresh(u))
  /\ runs' = runs + 1
  /\ UNCHANGED results
  /\ UNCHANGED <<hvars, evars, dvars, fvars, pvars, nvars, ovars>>

\* the running invocation of parse_calls is suspended, the other one resumes
SwitchCalls ==
  /\ pc # "idle"
  /\ other # None
  /\ HResume(other[1])
  /\ other' = Some(hvars)
  /\ UNCHANGED <<results, runs>>
  /\ UNCHANGED <<evars, dvars, fvars, pvars, nvars, ovars>>
SwitchEdf ==
  /\ e_pc # "idle"
  /\ other # None
  /\ EResume(other[1])
  /\ other' = Some(evars)
  /\ UNCHANGED <<results, runs>>
  /\ UNCHANGED <<hvars, dvars, fvars, pvars, nvars, ovars>>

\* parse_calls has returned and is called again on the same text
ParseCallsAgain ==
  /\ pc = "done"
  /\ runs < MaxRuns
  /\ results' = results \cup {<<text, rows>>}
  /\ runs' = runs + 1
  /\ HResume(HFresh(text))
  /\ UNCHANGED other
  /\ UNCHANGED <<evars, dvars, fvars, pvars, nvars, ovars>>
\* parse_edf has returned and is called again on the same text
ParseEdfAgain ==
  /\ e_pc = "done"
  /\ runs < MaxRuns
  /\ results' = results \cup {<<e_lines, e_rows>>}
  /\ runs' = runs + 1
  /\ EResume(EFresh(e_lines))
  /\ UNCHANGED other
  /\ UNCHANGED <<hvars, dvars, fvars, pvars, nvars, ovars>>

(***************************************************************************)
(* One call of normalize_pdf_text                                          *)
(***************************************************************************)
NInit ==
  /\ n_value \in {None} \cup {Some(t) : t \in NormTexts}
  /\ n_preserve \in BOOLEAN
  /\ n_result = None
  /\ n_pc = "call"

\* lines 72-73: null or empty input
NormalizeEmpty ==
  /\ n_pc = "call"
  /\ n_value = None \/ n_value = Some(<<>>)
  /\ n_result' = Some(normalize_pdf_text(n_value, n_preserve))
  /\ n_pc' = "done"
  /\ UNCHANGED <<n_value, n_preserve>>
  /\ UNCHANGED <<hvars, evars, dvars, fvars, pvars, avars, ovars>>

\* lines 74-82: preserve_newlines is true
NormalizeLines ==
  /\ n_pc = "call"
  /\ n_value # None /\ n_value # Some(<<>>)
  /\ n_preserve
  /\ n_result' = Some(normalize_pdf_text(n_value, TRUE))
  /\ n_pc' = "done"
  /\ UNCHANGED <<n_value, n_preserve>>
  /\ UNCHANGED <<hvars, evars, dvars, fvars, pvars, avars, ovars>>

\* lines 74-77 and 83-87: preserve_newlines is false
NormalizeFlat ==
  /\ n_pc = "call"
  /\ n_value # None /\ n_value # Some(<<>>)
  /\ ~n_preserve
  /\ n_result' = Some(normalize_pdf_text(n_value, FALSE))
  /\ n_pc' = "done"
  /\ UNCHANGED <<n_value, n_preserve>>
  /\ UNCHANGED <<hvars, evars, dvars, fvars, pvars, avars, ovars>>

NNext == NormalizeEmpty \/ NormalizeLines \/ NormalizeFlat

(***************************************************************************)
(* One call of _parse_overview_block                                       *)
(***************************************************************************)
OInit ==
  /\ o_lines \in OvTexts \union OvLongTexts
  /\ o_start \in OvStarts
  /\ o_result = None
  /\ o_pc = "call"

\* lines 518-569: one of the numeric patterns resolved; the result and the
\* index after the last line read are returned
OverviewParsed ==
  /\ o_pc = "call"
  /\ _parse_overview_block(o_lines, o_start).ok
  /\ o_result' = Some(_parse_overview_block(o_lines, o_start))
  /\ o_pc' = "done"
  /\ UNCHANGED <<o_lines, o_start>>
  /\ UNCHANGED <<hvars, evars, dvars, fvars, pvars, avars, nvars>>

\* line 573: return None, start_i
OverviewAbandoned ==
  /\ o_pc = "call"
  /\ ~_parse_overview_block(o_lines, o_start).ok
  /\ o_result' = Some(NoOverview(o_start))
  /\ o_pc' = "done"
  /\ UNCHANGED <<o_lines, o_start>>
  /\ UNCHANGED <<hvars, evars, dvars, fvars, pvars, avars, nvars>>

ONext == OverviewParsed \/ OverviewAbandoned

(***************************************************************************)
(* Specifications: one per component; the other components stay idle       *)
(***************************************************************************)
HIdle ==
  /\ text = <<>> /\ lines = <<>> /\ i = 1 /\ pc = "idle"
  /\ current_page = None /\ current_cluster = None /\ current_stage = None
  /\ current_call_round = None /\ current_cluster_page = None
  /\ current_call_id = None /\ current_opening = None /\ current_deadline = None
  /\ best_by_topic = <<>> /\ flushed = <<>> /\ rows = <<>>
EIdle ==
  /\ e_lines = <<>> /\ e_i = 1 /\ e_pc = "idle" /\ in_toc = FALSE
  /\ records = <<>> /\ current = 0 /\ e_current_call_id = None
  /\ current_call_section = 0 /\ current_call_record = 0 /\ e_rows = <<>>
DIdle ==
  /\ d_value = None /\ d_filter = None /\ d_pc = "idle" /\ d_rng = None
  /\ d_row_date = None /\ d_result = FALSE

FIdle ==
  /\ f_rows = <<>> /\ action_types = None /\ min_budget_m = None
  /\ opening_filter = None /\ deadline_filter = None /\ f_i = 1
  /\ f_pc = "idle" /\ allowed = None /\ filtered = <<>>
PIdle ==
  /\ parsed = <<>> /\ p_rows = <<>> /\ p_args = None /\ p_key = FALSE
  /\ p_pc = "idle" /\ p_i = 1 /\ p_n = 0
  /\ p_clock = None /\ p_cache = <<>> /\ p_filtered = <<>>
  /\ p_seen = <<>> /\ p_calls = <<>>
AIdle == other = None /\ results = {} /\ runs = 0
NIdle == n_value = None /\ n_preserve = FALSE /\ n_result = None /\ n_pc = "idle"
OIdle == o_lines = <<>> /\ o_start = 1 /\ o_result = None /\ o_pc = "idle"

vars == <<hvars, evars, dvars, fvars, pvars, avars, nvars, ovars>>

\* parse_calls
Init == HInit /\ EIdle /\ DIdle /\ FIdle /\ PIdle /\ AIdle /\ NIdle /\ OIdle
Next == HNext
Spec == Init /\ [][Next]_vars

\* parse_edf
InitEdf == EInit /\ HIdle /\ DIdle /\ FIdle /\ PIdle /\ AIdle /\ NIdle /\ OIdle
SpecEdf == InitEdf /\ [][ENext]_vars
\* parse_edf on the documents with descriptions
InitEdfText == ETextInit /\ HIdle /\ DIdle /\ FIdle /\ PIdle /\ AIdle /\ NIdle /\ OIdle
SpecEdfText == InitEdfText /\ [][ENext]_vars

\* _date_filter_match
InitDate == DInit /\ HIdle /\ EIdle /\ FIdle /\ PIdle /\ AIdle /\ NIdle /\ OIdle
SpecDate == InitDate /\ [][DNext]_vars

\* filter_rows
InitFilter == FInit /\ HIdle /\ EIdle /\ DIdle /\ PIdle /\ AIdle /\ NIdle /\ OIdle
SpecFilter == InitFilter /\ [][FNext]_vars

\* _process_pdf_key
InitPost == PInit /\ HIdle /\ EIdle /\ DIdle /\ FIdle /\ AIdle /\ NIdle /\ OIdle
SpecPost == InitPost /\ [][PNext]_vars

\* one invocation of parse_calls (of parse_edf) has been started
AInitCalls ==
  /\ text \in AgainCallTexts
  /\ lines = <<>> /\ i = 1 /\ pc = "merge"
  /\ current_page = None /\ current_cluster = None /\ current_stage = None
  /\ current_call_round = None /\ current_cluster_page = None
  /\ current_call_id = None /\ current_opening = None /\ current_deadline = None
  /\ best_by_topic = <<>> /\ flushed = <<>> /\ rows = <<>>
  /\ EIdle
  /\ other = None
  /\ results = {}
  /\ runs = 1
AInitEdf ==
  /\ e_lines \in AgainEdfTexts
  /\ e_i = 1 /\ e_pc = "scan" /\ in_toc = FALSE /\ records = <<>>
  /\ current = 0 /\ e_current_call_id = None /\ current_call_section = 0
  /\ current_call_record = 0 /\ e_rows = <<>>
  /\ HIdle
  /\ other = None
  /\ results = {}
  /\ runs = 1
\* invocations of one parser, interleaved
InitAgain == (AInitCalls \/ AInitEdf) /\ DIdle /\ FIdle /\ PIdle /\ NIdle /\ OIdle
NextAgain ==
  \/ HNext
  \/ ENext
  \/ StartCalls
  \/ StartEdf
  \/ SwitchCalls
  \/ SwitchEdf
  \/ ParseCallsAgain
  \/ ParseEdfAgain
SpecAgain == InitAgain /\ [][NextAgain]_vars
InitNorm == NInit /\ HIdle /\ EIdle /\ DIdle /\ FIdle /\ PIdle /\ AIdle /\ OIdle
SpecNorm == InitNorm /\ [][NNext]_vars
\* _parse_overview_block
InitOverview == OInit /\ HIdle /\ EIdle /\ DIdle /\ FIdle /\ PIdle /\ AIdle /\ NIdle
SpecOverview == InitOverview /\ [][ONext]_vars

\* parse_calls is called on a document with contents-listing lines
InitScan ==
  /\ text = <<>>
  /\ lines = <<>> /\ i = 1 /\ pc = "call"
  /\ current_page = None /\ current_cluster = None /\ current_stage = None
  /\ current_call_round = None /\ current_cluster_page = None
  /\ current_call_id = None /\ current_opening = None /\ current_deadline = None
  /\ best_by_topic = <<>> /\ flushed = <<>> /\ rows = <<>>
  /\ EIdle /\ DIdle /\ FIdle /\ PIdle /\ AIdle /\ NIdle /\ OIdle
\* line 703: the argument
ParseCallsOf(documents) ==
  /\ pc = "call"
  /\ text' \in documents
  /\ pc' = "merge"
  /\ UNCHANGED <<lines, i, current_page, current_cluster, current_stage,
                 current_call_round, current_cluster_page, current_call_id,
                 current_opening, current_deadline, best_by_topic, flushed, rows>>
  /\ UNCHANGED <<evars, dvars, fvars, pvars, avars, nvars, ovars>>
NextScan == ParseCallsOf(ScanDocuments) \/ HNext
SpecScan == InitScan /\ [][NextScan]_vars
\* the interpreter runs the function to its return statement
NextLive == ParseCallsOf(LiveDocuments) \/ HNext
SpecScanLive == InitScan /\ [][NextLive]_vars /\ WF_vars(NextLive)

(***************************************************************************)
(* Properties of parse_calls                                               *)
(***************************************************************************)
HasRow(rs, tid) == \E r \in 1..Len(rs) : rs[r].topic_id = tid

\* C1: when the input is a topic-id line with an inline title immediately
\* followed by an overview line "<ACTION> <total> Around <amount> <count>",
\* the output has a row for that topic id with action_type = ACTION,
\* budget_eur_m = total, both per-project bounds = amount, projects = count.
C1_TitleThenOverviewRow ==
  (pc = "done" /\ text = <<L_T1t, L_OvAround>>) =>
    \E r \in 1..Len(rows) :
      /\ rows[r].topic_id = PlainId(1)
      /\ rows[r].action_type = Some("RIA")
      /\ rows[r].budget_eur_m = Some(9670)
      /\ rows[r].budget_per_project_min_eur_m = Some(4835)
      /\ rows[r].budget_per_project_max_eur_m = Some(4835)
      /\ rows[r].projects = Some(2)

\* C2: every topic id that matches the topic-id grammar on some input line
\* has a row in the output, whatever lines precede or follow it.
C2_EveryTopicIdHasRow ==
  pc = "done" =>
    \A p \in 1..Len(text) : \A q \in TopicPositions(text[p]) :
      HasRow(rows, TopicIdAt(text[p], q))

\* C3: no two rows of the returned list (nor of the store, at any time) have
\* the same topic_id.
C3_UniqueTopicIds ==
  /\ \A p, q \in 1..Len(rows) : p # q => rows[p].topic_id # rows[q].topic_id
  /\ \A p, q \in 1..Len(best_by_topic) :
       p # q => best_by_topic[p].topic_id # best_by_topic[q].topic_id
  /\ pc = "done" => Len(rows) = Len(best_by_topic)

\* a topic id was flushed more than once and the parse has returned
C3_Witness ==
  /\ pc = "done"
  /\ \E p, q \in 1..Len(flushed) : p < q /\ flushed[p].topic_id = flushed[q].topic_id
  /\ Len(rows) < Len(flushed)

\* the occurrences of an id flushed so far, and the earliest of those with
\* the highest score
Occurrences(tid) == {p \in 1..Len(flushed) : flushed[p].topic_id = tid}
EarliestBest(tid) ==
  CHOOSE p \in Occurrences(tid) :
    /\ \A q \in Occurrences(tid) : score(flushed[q]) <= score(flushed[p])
    /\ \A q \in Occurrences(tid) : score(flushed[q]) = score(flushed[p]) => p <= q

\* C4: after every flush the row stored for a topic id scores at least as
\* high as every occurrence of that id flushed so far, and it is the earliest
\* occurrence with the highest score (a later one replaces it only with a
\* strictly higher score).  The score counts the fields among action_type,
\* budget_eur_m, projects and the two per-project bounds that are neither
\* null, empty nor zero.
C4_BestScoreKept ==
  \A p \in 1..Len(flushed) :
    \E b \in 1..Len(best_by_topic) :
      /\ best_by_topic[b].topic_id = flushed[p].topic_id
      /\ score(best_by_topic[b]) >= score(flushed[p])
      /\ best_by_topic[b] = flushed[EarliestBest(flushed[p].topic_id)]

\* an id was flushed three times: a strictly better occurrence replaced the
\* first, and a later and different occurrence of equal score did not
\* replace that one
C4_Witness ==
  \E p, q, r \in 1..Len(flushed) :
    /\ p < q /\ q < r
    /\ flushed[p].topic_id = flushed[q].topic_id
    /\ flushed[q].topic_id = flushed[r].topic_id
    /\ score(flushed[q]) > score(flushed[p])
    /\ score(flushed[r]) = score(flushed[q])
    /\ flushed[r] # flushed[q]
    /\ \E b \in 1..Len(best_by_topic) : best_by_topic[b] = flushed[q]

\* C6: every returned row with both per-project bounds present has
\* min <= max.
C6_MinLeMax ==
  \A r \in 1..Len(rows) :
    (rows[r].budget_per_project_min_eur_m # None
       /\ rows[r].budget_per_project_max_eur_m # None)
    => rows[r].budget_per_project_min_eur_m[1] <= rows[r].budget_per_project_max_eur_m[1]

\* C7: a row's stage is null unless a cluster header's parenthesized suffix
\* or the topic id itself states the stage.
C7_StageStatedOrNull ==
  \A r \in 1..Len(rows) :
    rows[r].stage # None =>
      \/ IdSaysTwoStage(rows[r].topic_id)
      \/ \E p \in 1..Len(text) :
           StartsCall(text[p]) /\ _parse_cluster_line(text[p]).stage = rows[r].stage

(***************************************************************************)
(* Properties of parse_edf                                                 *)
(***************************************************************************)
Triple(t) == <<t.record_level, t.call_id, t.topic_id>>

\* C5: no two records of the returned list have the same
\* (record_level, call_id, topic_id) triple.
C5_UniqueTriples ==
  e_pc = "done" =>
    \A p, q \in 1..Len(e_rows) : p # q => Triple(e_rows[p]) # Triple(e_rows[q])

(***************************************************************************)
(* Properties of the date filter                                           *)
(***************************************************************************)
\* The day number of a date, counted from 1 January of year 1.
C8_LeapYearsBefore(y) == (y - 1) \div 4 - (y - 1) \div 100 + (y - 1) \div 400
C8_IsLeapYear(y) == C8_LeapYearsBefore(y + 1) - C8_LeapYearsBefore(y) = 1
C8_DaysBeforeMonth(y, m) ==
  LET cum == <<0, 31, 59, 90, 120, 151, 181, 212, 243, 273, 304, 334>>
  IN cum[m] + (IF m > 2 /\ C8_IsLeapYear(y) THEN 1 ELSE 0)
C8_Ordinal(dt) ==
  (dt.y - 1) * 365 + C8_LeapYearsBefore(dt.y) + C8_DaysBeforeMonth(dt.y, dt.m) + dt.d
C8_IsCalendarDay(y, m, d) ==
  /\ y >= 1 /\ m \in 1..12 /\ d >= 1
  /\ C8_Ordinal([y |-> y, m |-> m, d |-> d]) < C8_Ordinal([y |-> y + (m \div 12), m |-> (m % 12) + 1, d |-> 1])

\* C8: when the filter resolves to a period end e, the match is true exactly
\* when the row date parses and is on or before e (no lower bound); a null
\* or unparseable row date gives false.  A row date written YYYY-MM-DD is
\* parsed to that calendar day.
C8_UpperBound ==
  (d_pc = "ret" /\ d_rng # None) =>
    /\ d_result = (d_row_date # None
                   /\ C8_Ordinal(d_row_date[1]) <= C8_Ordinal(d_rng[1].end))
    /\ d_row_date = _parse_date(d_value)
    /\ d_value = None => ~d_result
    /\ \A y \in ValueYears, m \in ValueMonths, d \in ValueDays :
         d_value = Some(DayStr(y, m, d)) =>
           d_result = (C8_IsCalendarDay(y, m, d)
                       /\ C8_Ordinal([y |-> y, m |-> m, d |-> d]) <= C8_Ordinal(d_rng[1].end))

\* the row date is the last day of the filter's period (29 February 2024
\* against "2024-02"), and the row matches
C8_Witness ==
  /\ d_pc = "ret"
  /\ d_filter = Some(MonthStr(2024, 2))
  /\ d_value = Some(DayStr(2024, 2, 29))
  /\ d_rng # None
  /\ d_result

\* the last day of a month, leap years included
C9_LastDay(y, m) ==
  IF m = 2 THEN (IF y % 400 = 0 \/ (y % 4 = 0 /\ y % 100 # 0) THEN 29 ELSE 28)
  ELSE IF m \in {4, 6, 9, 11} THEN 30 ELSE 31
C9_Until(y, m, d) == Some([start |-> None, end |-> [y |-> y, m |-> m, d |-> d]])

\* C9: _parse_filter_range maps YYYY to 31 December of that year, YYYY-Qn to
\* the last day of month 3n, YYYY-MM to the last day of that month (leap
\* years included) and YYYY-MM-DD to that day; the start of the range is
\* always absent; a string of these shapes that names no valid date resolves
\* to no range.
C9_PeriodResolution ==
  d_pc = "ret" =>
    /\ d_rng = _parse_filter_range(d_filter)
    /\ d_rng # None => d_rng[1].start = None
    /\ \A y \in FilterYears :
         d_filter = Some(YearStr(y)) =>
           d_rng = IF y >= 1 THEN C9_Until(y, 12, 31) ELSE None
    /\ \A y \in FilterYears, q \in FilterQuarters :
         d_filter = Some(QuarterStr(y, q)) =>
           d_rng = IF y >= 1 THEN C9_Until(y, 3 * q, C9_LastDay(y, 3 * q)) ELSE None
    /\ \A y \in FilterYears, m \in FilterMonths :
         d_filter = Some(MonthStr(y, m)) =>
           d_rng = IF y >= 1 /\ m \in 1..12 THEN C9_Until(y, m, C9_LastDay(y, m)) ELSE None
    /\ \A y \in FilterYears, m \in FilterMonths, d \in FilterDays :
         d_filter = Some(DayStr(y, m, d)) =>
           d_rng = IF y >= 1 /\ m \in 1..12 /\ d >= 1 /\ d <= C9_LastDay(y, m)
                   THEN C9_Until(y, m, d) ELSE None

\* the filter "1900-02" of a century year that is not a leap year has
\* resolved to 28 February
C9_Witness ==
  /\ d_pc = "ret"
  /\ d_filter = Some(MonthStr(1900, 2))
  /\ d_rng = C9_Until(1900, 2, 28)

\* two characters that are equal up to case
C10_Upper == <<"A", "B", "C", "D", "E", "F", "G", "H", "I", "J", "K", "L", "M",
              "N", "O", "P", "Q", "R", "S", "T", "U", "V", "W", "X", "Y", "Z">>
C10_Lower == <<"a", "b", "c", "d", "e", "f", "g", "h", "i", "j", "k", "l", "m",
              "n", "o", "p", "q", "r", "s", "t", "u", "v", "w", "x", "y", "z">>
C10_SameLetter(a, b) ==
  \/ a = b
  \/ \E k \in 1..26 : {a, b} = {C10_Upper[k], C10_Lower[k]}
C10_IsPrefixIgnoringCase(f, v) ==
  Len(f) <= Len(v) /\ \A k \in 1..Len(f) : C10_SameLetter(f[k], v[k])

\* C10: when the filter does not resolve to a period, the match is the
\* case-insensitive prefix test of the trimmed filter against the trimmed raw
\* value; so an empty filter matches every row (null dates included) and a
\* non-empty filter never matches a null date.
C10_PrefixFallback ==
  (d_pc = "ret" /\ d_rng = None) =>
    LET f == Strip(OrEmpty(d_filter))
    IN /\ f = <<>> => d_result
       /\ (f # <<>> /\ d_value = None) => ~d_result
       /\ (f # <<>> /\ d_value # None) =>
            d_result = C10_IsPrefixIgnoringCase(f, Strip(d_value[1]))

\* the filter "tbd" has matched the raw value " TBD 2026"
C10_Witness ==
  /\ d_pc = "ret"
  /\ d_rng = None
  /\ d_filter = Some(<<"t", "b", "d">>)
  /\ d_value = Some(<<" ", "T", "B", "D", " ", "2", "0", "2", "6">>)
  /\ d_result

(***************************************************************************)
(* Properties of filter_rows                                               *)
(***************************************************************************)
\* the rows the loop has already decided on, and whether one was kept
Processed == {f_rows[k] : k \in 1..(f_i - 1)}
Kept(r) == \E k \in 1..Len(filtered) : filtered[k] = r
\* two strings that are equal up to case
C11_EqualIgnoringCase(a, b) ==
  Len(a) = Len(b) /\ \A k \in 1..Len(a) : C10_SameLetter(a[k], b[k])
\* the entries of the allow-list that are not blank
C11_Entries ==
  IF action_types = None THEN {}
  ELSE {action_types[1][k] : k \in {j \in 1..Len(action_types[1]) :
                                      \E c \in 1..Len(action_types[1][j]) :
                                        action_types[1][j][c] # " "}}
C11_Matches(r) ==
  r.action_type # None
  /\ \E t \in C11_Entries : C11_EqualIgnoringCase(r.action_type[1], t)

\* C11: with an allow-list that has a non-blank entry, a row that passes the
\* budget and date filters is kept exactly when its action_type equals some
\* entry ignoring case, and a row without action_type is removed; with an
\* absent, empty or blank-only allow-list the action type removes no row.
C11_ActionTypeFilter ==
  \A r \in Processed :
    LET rest == BudgetOk(r, min_budget_m) /\ DatesOk(r, opening_filter, deadline_filter)
    IN IF C11_Entries # {}
       THEN /\ Kept(r) <=> (C11_Matches(r) /\ rest)
            /\ r.action_type = None => ~Kept(r)
       ELSE Kept(r) <=> rest

\* the list ['ria'] has kept the row of type RIA and removed the row without
\* action type, which passes the other filters
C11_Witness ==
  /\ f_pc = "ret"
  /\ action_types = Some(<<S_ria>>)
  /\ \E r \in Processed : r.action_type = Some(S_RIA) /\ Kept(r)
  /\ \E r \in Processed :
       /\ r.action_type = None
       /\ BudgetOk(r, min_budget_m)
       /\ DatesOk(r, opening_filter, deadline_filter)
       /\ ~Kept(r)

\* the numeric per-project budget fields of a row, and the budget the filter
\* resolves from them: the minimum field, else the least of the other two
C12_HasBudget(r) ==
  \/ r.budget_per_project_min_eur_m # None
  \/ r.budget_per_project_max_eur_m # None
  \/ r.budget_per_project_m # None
C12_Budget(r) ==
  IF r.budget_per_project_min_eur_m # None THEN r.budget_per_project_min_eur_m[1]
  ELSE IF r.budget_per_project_max_eur_m = None THEN r.budget_per_project_m[1]
  ELSE IF r.budget_per_project_m = None THEN r.budget_per_project_max_eur_m[1]
  ELSE Min2(r.budget_per_project_max_eur_m[1], r.budget_per_project_m[1])

\* C12: under a minimum budget, a row with no resolvable per-project budget
\* counts as budget 0 (removed by every positive minimum, kept by the minimum
\* 0 when it passes the other filters); a row with resolvable budget b that
\* passes the other filters is kept exactly when b >= min_budget_m.
C12_MinBudgetFilter ==
  min_budget_m # None =>
    \A r \in Processed :
      LET rest == TypeOk(r, AllowedOf(action_types))
                  /\ DatesOk(r, opening_filter, deadline_filter)
      IN IF C12_HasBudget(r)
         THEN Kept(r) <=> (C12_Budget(r) >= min_budget_m[1] /\ rest)
         ELSE /\ min_budget_m[1] > 0 => ~Kept(r)
              /\ min_budget_m[1] = 0 => (Kept(r) <=> rest)

\* under the minimum 6 the row whose budget 6 is resolved from its other
\* fields is kept and the row without any budget is removed
C12_Witness ==
  /\ f_pc = "ret"
  /\ min_budget_m = Some(6)
  /\ \E r \in Processed :
       /\ r.budget_per_project_min_eur_m = None
       /\ C12_HasBudget(r)
       /\ C12_Budget(r) = 6
       /\ Kept(r)
  /\ \E r \in Processed :
       /\ ~C12_HasBudget(r)
       /\ TypeOk(r, AllowedOf(action_types))
       /\ DatesOk(r, opening_filter, deadline_filter)
       /\ ~Kept(r)

\* a row passes the four filters
C13_Passes(r) ==
  /\ TypeOk(r, AllowedOf(action_types))
  /\ BudgetOk(r, min_budget_m)
  /\ DatesOk(r, opening_filter, deadline_filter)

\* C13: the output of filter_rows is the input list with the rows that fail a
\* filter left out: the rows that pass all four filters, each once, unchanged
\* and in their input order.
C13_OrderPreserved ==
  filtered = SelectSeq(SubSeq(f_rows, 1, f_i - 1), C13_Passes)

\* of three different rows the first and the third were kept, in that order,
\* and the second was removed
C13_Witness ==
  /\ f_pc = "ret"
  /\ Len(f_rows) = 3
  /\ f_rows[1] # f_rows[3]
  /\ ~C13_Passes(f_rows[2])
  /\ filtered = <<f_rows[1], f_rows[3]>>

(***************************************************************************)
(* Properties of _process_pdf_key                                          *)
(***************************************************************************)
\* the fields of a row that parse_calls produces (of those modelled)
C14_ParserFields ==
  {"topic_id", "action_type", "opening_date", "deadline_date",
   "budget_per_project_min_eur_m", "budget_per_project_max_eur_m",
   "topic_description", "topic_body"}

\* C14: from the return of parse_calls until the rows are projected for
\* output, every row still being processed has each parser-produced field with
\* the value parse_calls gave it; post-processing only adds fields.
C14_ParserFieldsKept ==
  p_pc \in {"derive", "filter", "openai", "normalise", "pop"} =>
    \A k \in 1..Len(p_rows) :
      \E j \in 1..Len(parsed) :
        /\ parsed[j].topic_id = p_rows[k].topic_id
        /\ \A f \in C14_ParserFields : p_rows[k][f] = parsed[j][f]

(***************************************************************************)
(* Properties of several invocations                                       *)
(***************************************************************************)
\* C15: two invocations of parse_calls (of parse_edf) on the same text return
\* the same rows, however their steps and those of an invocation on another
\* text are interleaved: a finished invocation agrees with every earlier
\* result for its text and with the other invocation, when that one has
\* finished on the same text.
C15_SameTextSameRows ==
  IF pc # "idle"
  THEN pc = "done" =>
         /\ \A res \in results : res[1] = text => res[2] = rows
         /\ (other # None /\ other[1][4] = "done" /\ other[1][1] = text) =>
              other[1][15] = rows
  ELSE IF e_pc # "idle"
  THEN e_pc = "done" =>
         /\ \A res \in results : res[1] = e_lines => res[2] = e_rows
         /\ (other # None /\ other[1][3] = "done" /\ other[1][1] = e_lines) =>
              other[1][10] = e_rows
  ELSE TRUE

\* the second run of parse_calls on a text has ended with the rows of the
\* first, after an invocation on another text ran in between and left a call
\* id and an opening date in its own context
C15_Witness ==
  /\ pc = "done"
  /\ rows # <<>>
  /\ <<text, rows>> \in results
  /\ runs = MaxRuns
  /\ other # None
  /\ other[1][1] # text
  /\ other[1][4] = "done"
  /\ other[1][10] # None

(***************************************************************************)
(* Properties of parse_edf                                                 *)
(***************************************************************************)
\* the three lines before the scanner are a topic header with inline title,
\* a "Type of action" line and a topic budget line, read outside the table
\* of contents
C16_Entry ==
  /\ e_pc = "scan" /\ ~in_toc /\ e_i >= 4
  /\ e_lines[e_i - 3].kind = "topic_line"
  /\ e_lines[e_i - 2].kind = "type"
  /\ e_lines[e_i - 1].kind = "topic_budget"
\* the record of the entry has the id and the type of the lines
C16_IdAndType ==
  /\ current # 0
  /\ records[current].record_level = "TOPIC"
  /\ records[current].topic_id = Some(e_lines[e_i - 3].v)
  /\ records[current].type_of_action = e_lines[e_i - 2].v
\* the family named by the third hyphen segment of the topic id
C16_TopicFamily == _extract_call_family(Some(ETopicCall(e_lines[e_i - 3].v)))

C17_TocSuppression ==
  [][(e_pc = "scan" /\ in_toc /\ e_i' = e_i + 1) =>
       /\ records' = records
       /\ current' = current
       /\ e_current_call_id' = e_current_call_id
       /\ current_call_record' = current_call_record
       /\ (e_lines[e_i].kind # "toc_end" => in_toc')]_vars

\* a table of contents without end marker has swallowed a topic header: the
\* only record is the one made before it
C17_Witness ==
  /\ e_pc = "done"
  /\ in_toc
  /\ Len(e_lines) = 3
  /\ e_lines[1].kind = "topic_line"
  /\ e_lines[2].kind = "toc_start"
  /\ e_lines[3].kind = "topic_line"
  /\ e_lines[3].v # e_lines[1].v
  /\ Len(e_rows) = 1
  /\ e_rows[1].topic_id = Some(e_lines[1].v)

\* the lines read so far
C18_Read == {e_lines[k] : k \in 1..(e_i - 1)}

\* C18: a funding_percentage that is set is the percentage of a line read
\* that has both funding wording and a percentage; as long as no line read
\* has funding wording, every funding_percentage is null.
C18_FundingOnlyWithWording ==
  /\ \A k \in 1..Len(records) :
       records[k].funding_percentage # None =>
         \E ln \in C18_Read :
           ln.kind = "funding" /\ records[k].funding_percentage = Some(ln.v)
  /\ (\A ln \in C18_Read : ln.kind \notin {"funding", "funding_words"}) =>
       \A k \in 1..Len(records) : records[k].funding_percentage = None
  /\ \A k \in 1..Len(e_rows) :
       e_rows[k].funding_percentage = records[k].funding_percentage

\* after a topic header the line "At least 30% of the budget" left the
\* funding percentage null and "The funding rate is up to 80 %" set it to 80
C18_Witness ==
  /\ e_pc = "done"
  /\ Len(e_lines) = 3
  /\ e_lines[1].kind = "topic_line"
  /\ e_lines[2] = E_Percent
  /\ e_lines[3] = E_Funding
  /\ e_rows[1].funding_percentage = Some(80)

\* C19: a line with "Indicative budget for the call" changes no record's
\* indicative_budget_eur_m, and a line with "Indicative budget ... for this
\* topic" changes no record's call_indicative_budget_eur_m.
C19_BudgetsApart ==
  [][(e_pc = "scan" /\ e_i' = e_i + 1 /\ Len(records') = Len(records)) =>
       /\ e_lines[e_i].kind \in {"call_budget", "both_budgets"} =>
            \A k \in 1..Len(records) :
              records'[k].indicative_budget_eur_m = records[k].indicative_budget_eur_m
       /\ e_lines[e_i].kind \in {"topic_budget", "both_budgets"} =>
            \A k \in 1..Len(records) :
              records'[k].call_indicative_budget_eur_m =
                records[k].call_indicative_budget_eur_m]_vars

\* C20: in every returned record call_family is null or one of RA, DA, CSA,
\* and it is the third hyphen segment of the record's call id when that
\* segment is in the label table, null otherwise.
C20_FamilyOfCallId ==
  e_pc = "done" =>
    \A k \in 1..Len(e_rows) :
      /\ e_rows[k].call_family \in {None} \cup {Some(f) : f \in {"RA", "DA", "CSA"}}
      /\ e_rows[k].call_id # None =>
           e_rows[k].call_family =
             IF ECallSegment(e_rows[k].call_id[1]) \in {"RA", "DA", "CSA"}
             THEN Some(ECallSegment(e_rows[k].call_id[1])) ELSE None

(***************************************************************************)
(* Properties of parse_calls on contents listings                          *)
(***************************************************************************)
C21_NoMarker == \A l \in 1..Len(text) : ~IsPageMarker(text[l])
\* the page numbers written after the dot leaders (" ..... n") of the text
C21_LeaderPages ==
  UNION {{text[l][p].v : p \in {q \in 1..Len(text[l]) : text[l][q].c = "dots"}} :
           l \in 1..Len(text)}

\* C21 (as stated): when the input text contains no <<<PAGE n>>> marker line,
\* every row returned by the parser has page = null.
C21_NoMarkerNoPage ==
  (pc = "done" /\ C21_NoMarker) => \A r \in 1..Len(rows) : rows[r].page = None

\* C21 (amended): when the input text contains no <<<PAGE n>>> marker line,
\* a returned row's page is null or the page number written after a dot
\* leader of the text (so it is null when the text has no dot leader).
C21_NoMarkerLeaderPage ==
  (pc = "done" /\ C21_NoMarker) =>
    \A r \in 1..Len(rows) :
      rows[r].page = None \/ rows[r].page[1] \in C21_LeaderPages

\* a document without markers was parsed to the end and a row took its page
\* from the dot leader of the cluster header
C21_Witness ==
  /\ pc = "done"
  /\ C21_NoMarker
  /\ \E r \in 1..Len(rows) : rows[r].page = Some(12)

\* C22: parse_calls terminates on every finite input, and every iteration of
\* the main loop, lookahead included, leaves the line index strictly greater
\* or ends the loop, also when an action-type line starts no overview block.
C22_Termination ==
  /\ <>(pc = "done")
  /\ [][(pc = "scan" /\ pc' = "scan") => i' > i]_vars

\* parse_calls returned rows for a document in which the lookahead of a topic
\* met an action-type line that _parse_overview_block could not resolve
C22_Witness ==
  /\ pc = "done"
  /\ rows # <<>>
  /\ i = Len(lines) + 1
  /\ \E k \in 2..Len(lines) :
       /\ HasTopicId(lines[k - 1])
       /\ FirstIsAction(lines[k])
       /\ ~_parse_overview_block(lines, k).ok
       /\ _parse_overview_block(lines, k).i = k

\* the loop over the rows is over
C23_LoopOver == p_pc \in {"normalise", "pop", "write"}
\* the request sent for row c failed: the row was not given a summary
C23_Failed(c) ==
  /\ \E k \in 1..Len(p_calls) : p_calls[k] = c
  /\ p_rows[c].topic_description # Some(Summary)
\* row k was reached by the loop over the rows
C23_Reached(k) == \E s \in 1..Len(p_seen) : p_seen[s].row = k

\* the loop ended early: the cap was reached or the remaining time was low
C23_Stopped ==
  \/ p_n >= OPENAI_MAX_TOPICS
  \/ \E s \in 1..Len(p_seen) : LowTime(p_seen[s].ms)

\* C23: when the summarization request of one row fails, the row's description
\* is the empty string, every later row is still reached by the loop (unless
\* the cap or the time budget ends it), and all filtered rows are returned.
C23_FailureIsolated ==
  C23_LoopOver =>
    /\ Len(p_rows) = Len(p_filtered)
    /\ \A k \in 1..Len(p_rows) : p_rows[k].topic_id = p_filtered[k].topic_id
    /\ \A c \in 1..Len(p_rows) :
         C23_Failed(c) =>
           /\ p_rows[c].topic_description = Some(<<>>)
           /\ \A k \in (c + 1)..Len(p_rows) : C23_Reached(k) \/ C23_Stopped

\* a first row whose request failed, a second row that got its summary, both
\* written
C23_Witness ==
  /\ p_pc = "write"
  /\ Len(p_rows) = 2
  /\ p_calls = <<1, 2>>
  /\ p_rows[1].topic_description = Some(<<>>)
  /\ p_rows[2].topic_description = Some(Summary)
\* the remaining time observed before row k, in a state of the loop or later
C24_LowBefore(k) ==
  \E s \in 1..Len(p_seen) : p_seen[s].row <= k /\ LowTime(p_seen[s].ms)

\* C24: no summarization call is issued for a row when the remaining time
\* observed before it, or before an earlier row, was below 8000 ms; the rows
\* not summarized are still output.
C24_TimeBudget ==
  /\ \A c \in 1..Len(p_calls) : ~C24_LowBefore(p_calls[c])
  /\ p_pc \in {"normalise", "pop", "write"} =>
       /\ Len(p_rows) = Len(p_filtered)
       /\ \A k \in 1..Len(p_rows) :
            C24_LowBefore(k) /\ NeedsSummary(p_filtered[k]) =>
              p_rows[k].topic_description # Some(Summary)

\* the first row was summarized, the time fell below the threshold before the
\* second, which needed a summary and is written without one
C24_Witness ==
  /\ p_pc = "write"
  /\ Len(p_rows) = 2
  /\ p_calls = <<1>>
  /\ p_rows[1].topic_description = Some(Summary)
  /\ NeedsSummary(p_filtered[2])
  /\ C24_LowBefore(2) /\ ~C24_LowBefore(1)
  /\ p_rows[2].topic_description = Some(<<>>)
(***************************************************************************)
(* Properties of normalize_pdf_text                                        *)
(***************************************************************************)
\* the number of line breaks of a text whose breaks are all "\n"
C25_Breaks(s) == Cardinality({k \in 1..Len(s) : s[k] = "\n"})
\* the line breaks of the input that are not repaired hyphen line-breaks
C25_Unrepaired == C25_Breaks(Repaired(n_value[1]))
\* those of them that lie between the first and the last non-blank character
C25_Inner == C25_Breaks(NStrip(Repaired(n_value[1])))
\* the line breaks inside the words that the known fixes rejoin
C25_Rejoined ==
  LET lns == SplitLines(Repaired(n_value[1]))
      joined == JoinLines([k \in 1..Len(lns) |->
                             _collapse_broken_word_fragments(NStrip(lns[k]))])
  IN C25_Breaks(joined) - C25_Breaks(_apply_known_fixes(joined))
C25_EmptyAndFlat ==
  /\ n_value = None \/ n_value = Some(<<>>) => n_result = Some(<<>>)
  /\ n_value # None /\ ~n_preserve => C25_Breaks(n_result[1]) = 0

\* C25 as stated: the result is empty for null or empty input; without
\* preserve_newlines it has no newline; with preserve_newlines every line
\* break that is not a repaired hyphen line-break is retained.
C25_AllBreaksRetained ==
  n_pc = "done" =>
    /\ C25_EmptyAndFlat
    /\ n_value # None /\ n_preserve => C25_Breaks(n_result[1]) = C25_Unrepaired

\* C25 (amended): the result is empty for null or empty input; without
\* preserve_newlines it has no newline; with preserve_newlines it retains
\* every line break that is not a repaired hyphen line-break, does not come
\* before the first or after the last non-blank character, and is not inside
\* a word that the known fixes rejoin.
C25_InnerBreaksRetained ==
  n_pc = "done" =>
    /\ C25_EmptyAndFlat
    /\ n_value # None /\ n_preserve =>
         C25_Breaks(n_result[1]) = C25_Inner - C25_Rejoined

\* preserve_newlines: a lone carriage return between two words is retained as
\* the one line break of the result
C25_Witness ==
  /\ n_pc = "done"
  /\ n_preserve
  /\ n_value # None
  /\ \E k \in 1..Len(n_value[1]) : n_value[1][k] = "\r"
  /\ C25_Breaks(n_result[1]) = 1
  /\ Len(n_result[1]) = Len(n_value[1])
(***************************************************************************)
(* Properties of the line rules of parse_calls                             *)
(***************************************************************************)
\* the lines of the input that carry the topic id of row r
C26_LinesOf(r) ==
  {l \in 1..Len(text) :
     \E p \in TopicPositions(text[l]) : TopicIdAt(text[l], p) = rows[r].topic_id}
\* the page markers that precede line l
C26_MarkersBefore(l) == {m \in 1..(l - 1) : IsPageMarker(text[m])}
C26_Last(S) == CHOOSE m \in S : \A q \in S : q <= m

\* C26: a row's page is the number of the latest page marker that precedes the
\* topic's line in the input, wherever the marker stands relative to other
\* topic lines.
C26_PageOfLatestMarker ==
  pc = "done" =>
    \A r \in 1..Len(rows) :
      \A l \in C26_LinesOf(r) :
        (C26_LinesOf(r) = {l} /\ C26_MarkersBefore(l) # {}) =>
          rows[r].page = Some(text[C26_Last(C26_MarkersBefore(l))][1].v)
\* line l is a cluster header, a bare call-id line, a date line or a topic line
C27_HeaderLine(ln) == ~IsPageMarker(ln) /\ StartsCall(ln)
C27_ContextLine(ln) ==
  \/ HasCallId(ln) /\ ~HasTopicId(ln)
  \/ HasLabel(ln, "opening")
  \/ HasLabel(ln, "deadline")
\* the cluster headers that line l follows with no bare call-id, Opening: or
\* Deadline(s): line after the header up to l
C27_HeadersOf(l) ==
  {h \in 1..(l - 1) :
     /\ C27_HeaderLine(text[h])
     /\ \A m \in (h + 1)..l : ~C27_HeaderLine(text[m]) /\ ~C27_ContextLine(text[m])}
\* the call ids derived from the topic ids of the lines a..b
C27_CallsOf(a, b) ==
  UNION {{_derive_call_id_from_topic(TopicIdAt(text[m], p)) :
            p \in TopicPositions(text[m])} : m \in a..b}

\* C27: a topic that follows a "Call - " header with no bare call-id, Opening:
\* or Deadline(s): line in between has opening_date = null and deadline_date =
\* null, and its call id is derived from a topic id that stands after the
\* header.
C27_HeaderResetsContext ==
  pc = "done" =>
    \A r \in 1..Len(rows) :
      \A l \in C26_LinesOf(r) :
        \A h \in C27_HeadersOf(l) :
          C26_LinesOf(r) = {l} =>
            /\ rows[r].opening_date = None
            /\ rows[r].deadline_date = None
            /\ rows[r].call_id \in C27_CallsOf(h + 1, l)
\* line l is taken by the dates rule for the label lab (lines 879-890)
C28_DateLine(ln, lab) ==
  /\ NotCallLine(ln)
  /\ HasLabel(ln, lab)
  /\ lab = "deadline" => ~HasLabel(ln, "opening")
\* the last line of the input with the label lab, when no cluster header
\* follows it
C28_LastDate(lab) ==
  {l \in 1..Len(text) :
     /\ C28_DateLine(text[l], lab)
     /\ \A m \in (l + 1)..Len(text) :
          ~C28_DateLine(text[m], lab) /\ ~C27_HeaderLine(text[m])}

\* C28: every Opening: or Deadline(s): line updates the date of the call
\* context, wherever it occurs: at the end of the scan the context holds the
\* date of the last such line that no cluster header follows.
C28_DateLinesCaptured ==
  pc = "done" =>
    /\ \A l \in C28_LastDate("opening") :
         current_opening = LabelText(text[l], "opening")
    /\ \A l \in C28_LastDate("deadline") :
         current_deadline = LabelText(text[l], "deadline")
(***************************************************************************)
(* Properties of _parse_overview_block                                     *)
(***************************************************************************)
\* the buffered text after the first line, and what follows its action token
C29_Text == IF o_start <= Len(o_lines) THEN o_lines[o_start] ELSE <<>>
C29_Rest == Tail(C29_Text)
\* the text reads "<ACTION> ... X to Y N"
C29_RangeText ==
  /\ Len(C29_Text) >= 5
  /\ C29_Text[1].c = "act"
  /\ LET n == Len(C29_Text)
     IN /\ NumLike(C29_Text[n - 3])
        /\ C29_Text[n - 2].c = "to"
        /\ NumLike(C29_Text[n - 1])
        /\ C29_Text[n].c = "int" /\ C29_Text[n].v < 1000
\* the first number after the action token
C29_Total == NumVal(C29_Rest[FirstPos({p \in 1..Len(C29_Rest) : NumLike(C29_Rest[p])})])

\* C29: for buffered text "<ACTION> ... X to Y N" the block is parsed with
\* action_type = ACTION, budget_eur_m = the first number after the action
\* token, per-project minimum X, maximum Y and projects N, whether or not an
\* "Around" pattern is present as well.
C29_RangeVariant ==
  (o_pc = "done" /\ C29_RangeText) =>
    LET n == Len(C29_Text)
    IN o_result = Some(Overview(ActName(C29_Text[1].v), C29_Total,
                                NumVal(C29_Text[n - 3]), NumVal(C29_Text[n - 1]),
                                C29_Text[n].v, o_start + 1))
\* the places of "Around N", N an integer of one to three digits
C30_AroundCounts ==
  {p \in 2..(Len(C29_Rest) - 1) :
     /\ C29_Rest[p].c = "around"
     /\ C29_Rest[p + 1].c = "int" /\ C29_Rest[p + 1].v < 1000}
\* the text reads "<ACTION> <total> Around N ... <amount>": a decimal total,
\* the project count after the only "Around", and at the end a decimal amount
\* that differs from the total; there is no "X to Y N"
C30_MessyText ==
  /\ Len(C29_Text) >= 5
  /\ C29_Text[1].c = "act"
  /\ C29_Rest[1].c = "num"
  /\ C30_AroundCounts # {}
  /\ \A p \in 1..Len(C29_Rest) : C29_Rest[p].c = "around" => p \in C30_AroundCounts
  /\ FirstPos(C30_AroundCounts) + 1 < Len(C29_Rest)
  /\ C29_Rest[Len(C29_Rest)].c = "num"
  /\ NumVal(C29_Rest[Len(C29_Rest)]) # NumVal(C29_Rest[1])
  /\ RangePositions(C29_Rest) = {}
  /\ \A p \in 1..Len(C29_Rest) : C29_Rest[p].c # "unit"

\* C30: for buffered text "<ACTION> <total> Around N ... <amount>" the block
\* is parsed with projects = N and per-project minimum = maximum = the last
\* decimal number of the text that differs from the total.
C30_MessyAround ==
  (o_pc = "done" /\ C30_MessyText) =>
    LET amount == NumVal(C29_Rest[Len(C29_Rest)])
    IN o_result = Some(Overview(ActName(C29_Text[1].v), NumVal(C29_Rest[1]),
                                amount, amount,
                                C29_Rest[FirstPos(C30_AroundCounts) + 1].v,
                                o_start + 1))

(***************************************************************************)
(* C31  Overview block abandonment                                         *)
(***************************************************************************)
\* index of the first line at or after start_i that starts a new block (a
\* topic id, a bare call id or "Call - "), Len + 1 when there is none
C31_StopAt(ls, start_i) ==
  LET S == {j \in start_i..Len(ls) : IsBlockStart(ls[j])}
  IN IF S = {} THEN Len(ls) + 1 ELSE FirstPos(S)
\* index of the last line the call may inspect
C31_LastInspected(ls, start_i) ==
  LET a == start_i + 11
      b == C31_StopAt(ls, start_i) - 1
  IN IF a < b THEN a ELSE b

\* C31: the call reads no line after the twelfth from start_i and none at or
\* after the first line that starts a new block (cutting the text there
\* leaves the result as it is); a call that resolves no pattern returns no
\* result with the index start_i, and a successful call returns an index
\* after start_i, at most start_i + 12, one past a line it inspected.
C31_Abandonment ==
  o_pc = "done" =>
    LET r == o_result[1]
        last == C31_LastInspected(o_lines, o_start)
    IN /\ r = _parse_overview_block(SubSeq(o_lines, 1, last), o_start)
       /\ ~r.ok => r = NoOverview(o_start)
       /\ r.ok => r.i > o_start /\ r.i <= o_start + 12 /\ r.i <= last + 1

\* a block abandoned only because of the twelve iterations: no line starts
\* a new block, and a thirteenth iteration would have resolved the pattern
C31_Witness ==
  /\ o_pc = "done"
  /\ C31_StopAt(o_lines, o_start) > Len(o_lines)
  /\ o_result[1] = NoOverview(o_start)
  /\ OverviewLoop(o_lines, o_start, o_start, 13, <<>>).ok

(***************************************************************************)
(* C32  Overview fallback in the caller                                    *)
(***************************************************************************)
\* the action-type lines that the second lookahead loop of the topic line j
\* hands to _parse_overview_block without a result
C32_Abandoned(ls, j) ==
  LET t == TitleLoop(ls, j + 1, 0, InlineTitleParts(ls[j]))
      la == OverviewSearch(ls, t.i, t.parts)
      Met(k) == FirstIsAction(ls[k]) /\ ~_is_title_noise_line(ls[k])
  IN {k \in t.i..(la.i - 1) :
        /\ Met(k) /\ ~_parse_overview_block(ls, k).ok
        /\ \A q \in t.i..(k - 1) : ~(Met(q) /\ _parse_overview_block(ls, q).ok)}
\* the words of ln stand in the title
C32_InTitle(title, ln) ==
  \E p \in 1..(Len(title) - Len(ln) + 1) : SubSeq(title, p, p + Len(ln) - 1) = ln

\* C32: when the lookahead of a topic line meets an action-type line whose
\* overview block cannot be parsed, the row flushed for the topic has the
\* text of that line in its title.
C32_AbandonedBlockInTitle ==
  [][(Scanning /\ NotDateLine(lines[i]) /\ HasTopicId(lines[i])
        /\ Len(flushed') = Len(flushed) + 1)
       => \A k \in C32_Abandoned(lines, i) :
            C32_InTitle(flushed'[Len(flushed')].topic_title, lines[k])]_vars

(***************************************************************************)
(* C33  Bounded topic lookahead                                            *)
(***************************************************************************)
\* C33: the iteration of the main loop that handles a topic line consumes,
\* after the topic line, at most as many lines as the caps of the lookahead
\* loops allow (6 title lines, 12 lines of the overview block, 3 description
\* lines and 2 extra lines); the lines after them are left to the main loop.
C33_BoundedLookahead ==
  [][(Scanning /\ NotDateLine(lines[i]) /\ HasTopicId(lines[i]))
       => i' - (i + 1) <= LookaheadCaps]_vars

(***************************************************************************)
(* C34  Identifier-merge pre-pass                                          *)
(***************************************************************************)
C34_TopicLines(ls) == {l \in 1..Len(ls) : HasTopicId(ls[l])}

\* C34: the pre-pass leaves the number of lines that carry a topic id as it
\* is, and a line of the input that holds a complete topic id is a line of
\* the result, followed there by the line that follows it in the input.
C34_CompleteIdsPassThrough ==
  pc \in {"scan", "done"} =>
    /\ Cardinality(C34_TopicLines(lines)) = Cardinality(C34_TopicLines(text))
    /\ \A l \in C34_TopicLines(text) :
         \E m \in 1..Len(lines) :
           /\ lines[m] = text[l]
           /\ l < Len(text) => (m < Len(lines) /\ lines[m + 1] = text[l + 1])

(***************************************************************************)
(* C35  EDF Call header flushes topic state                                *)
(***************************************************************************)
\* the captured fields of a record
C35_Fields(r) ==
  <<r.type_of_action, r.indicative_budget_eur_m, r.call_indicative_budget_eur_m,
    r.funding_percentage, r.topic_title, r.title>>

\* C35: once a CALL record has been opened, no step changes a captured field
\* of a TOPIC record that was opened before it.
C35_CallHeaderFlushes ==
  [][\A k \in 1..Len(records) :
       (/\ records[k].record_level = "TOPIC"
        /\ \E c \in (k + 1)..Len(records) : records[c].record_level = "CALL")
         => C35_Fields(records'[k]) = C35_Fields(records[k])]_vars

(***************************************************************************)
(* C36  EDF description capture                                            *)
(***************************************************************************)
\* C36: when a line is read, a record's description stays as it is or gets
\* the line appended; it grows only while no identifier line (topic header
\* or Call header) has followed the record's own header, and never before
\* the first heading; from the first heading on, every line read outside
\* the table of contents is appended to the description of the topic whose
\* header is the latest identifier line.
C36_DescriptionCapture ==
  [][(EScanning /\ e_i' = e_i + 1) =>
       \A k \in 1..Len(records) :
         LET ln == e_lines[e_i]
             d == records[k].topic_description_verbatim
             dn == records'[k].topic_description_verbatim
             latest == k = Len(records) /\ records[k].record_level = "TOPIC"
         IN /\ dn = d \/ dn = Append(d, ln)
            /\ dn # d => latest /\ (d # <<>> \/ start_desc(ln))
            /\ (latest /\ ~in_toc /\ IsFieldLine(ln) /\ (d # <<>> \/ start_desc(ln)))
                 => dn = Append(d, ln)]_vars

(***************************************************************************)
(* C37  EDF large-scale post-pass                                          *)
(***************************************************************************)
\* the title a returned record ends with: the title captured for the topic
\* (inline or on the continuation line), else the record's title
C37_FinalTitle(r) == IF r.topic_title # NoText THEN r.topic_title ELSE r.title

\* C37: a returned record is large-scale exactly when its call id or topic
\* id has an LS segment after the third, or its final title or its final
\* description mentions large-scale.
C37_LargeScaleFinal ==
  e_pc = "done" =>
    \A k \in 1..Len(e_rows) :
      e_rows[k].is_large_scale =
        _is_large_scale(e_rows[k].call_id, e_rows[k].topic_id,
                        C37_FinalTitle(e_rows[k]),
                        e_rows[k].topic_description_verbatim)

(***************************************************************************)
(* C38  Horizon call-id consistency                                        *)
(***************************************************************************)
\* C38: the call id of a returned row, when there is one, is the call id
\* its topic id begins with.
C38_CallIdOfTopic ==
  pc = "done" =>
    \A r \in 1..Len(rows) :
      rows[r].call_id # None =>
        rows[r].call_id = _derive_call_id_from_topic(rows[r].topic_id)

(***************************************************************************)
(* C39  Horizon output order                                               *)
(***************************************************************************)
\* C39: the returned list is in ascending order of (call_id or "", topic_id):
\* no row is followed by a row that is smaller in that order.
C39_SortedOutput ==
  pc = "done" =>
    \A r \in 1..(Len(rows) - 1) : ~RowLess(rows[r + 1], rows[r])

\* two topics that stand in the document in descending order and are
\* returned in ascending order
C39_Witness ==
  /\ pc = "done"
  /\ Len(rows) = 2
  /\ Len(flushed) = 2
  /\ RowLess(rows[1], rows[2])
  /\ flushed[1] = rows[2]
  /\ flushed[2] = rows[1]

====
